---- MODULE Spec2Model ----
(***************************************************************************)
(* The four A2A agent executors (orchestrator, product, order, search),    *)
(* the LangGraph tool-calling loop each of them drives, the tools of the   *)
(* loop and the orchestrator's delegation client.                          *)
(*                                                                         *)
(* One process hosts one executor (`agent`).  Every execute() call is an   *)
(* execution e; executions interleave at their awaits.  A statement that   *)
(* can raise is an action with a raising twin.  A behaviour explores one   *)
(* element of Budgets: several interleaved executions whose model answers  *)
(* at once, or one execution with several tool rounds.                     *)
(***************************************************************************)
EXTENDS Integers, Sequences, FiniteSets, TLC

\* ------------------------------------------------------------------ bounds
\* execute() calls in one behaviour
MaxExec == 2
\* tool invocations requested in one behaviour, over all turns
MaxToolCalls == 2
\* model answers that request tools in one behaviour
MaxRounds == 2
\* successful cancel_order calls counted per order
MaxRepeat == 2

\* --------------------------------------------------------- program constants
\* str(e)[:100] in _delegate_to_agent
ErrCut == 100

None == "None"

Execs == 1..MaxExec
Tasks == 1..MaxExec

Agents == {"orchestrator", "product_agent", "order_agent", "search_agent"}

\* what one behaviour explores: MaxExec interleaved executions whose model
\* answers without requesting a tool, or one execution whose model requests
\* up to MaxToolCalls invocations in up to MaxRounds turns, or one execution
\* with one tool invocation whose task gets cancel requests at any moment,
\* or one execution next to a request to the chat endpoint, both answered
\* without a tool
Budget(e, r, c, cn, ch) == [execs |-> e, rounds |-> r, calls |-> c, cancel |-> cn, chat |-> ch]

Budgets ==
    { Budget(MaxExec, 0, 0, FALSE, FALSE),
      Budget(1, MaxRounds, MaxToolCalls, FALSE, FALSE),
      Budget(1, 1, 1, TRUE, FALSE),
      Budget(1, 0, 0, FALSE, TRUE) }

\* -------------------------------------------------------------------- text
\* A string is a sequence of pieces; a piece is `len` characters of the
\* text named txt.  The empty string is <<>>; no piece has length 0.
Piece(s, n) == [txt |-> s, len |-> n]
Lit(s) == <<Piece(<<s>>, 1)>>
Str(s, n) == IF n = 0 THEN <<>> ELSE <<Piece(<<s>>, n)>>

RECURSIVE TextLen(_)
TextLen(t) == IF t = <<>> THEN 0 ELSE Head(t).len + TextLen(Tail(t))

\* t[:k]
RECURSIVE Take(_, _)
Take(t, k) ==
    IF t = <<>> \/ k = 0 THEN <<>>
    ELSE IF Head(t).len <= k
         THEN <<Head(t)>> \o Take(Tail(t), k - Head(t).len)
         ELSE <<Piece(Head(t).txt, k)>>

\* s in t, for a literal s
Contains(t, s) == \E i \in DOMAIN t : t[i].txt = <<s>>

\* the text of the user's message of execution e: context.get_user_input()
get_user_input(e) == <<Piece(<<"query", e>>, 1)>>

\* the text the model writes in its m-th answer of execution e
AnswerText(e, m) == <<Piece(<<"answer", e, m>>, 1)>>

\* ------------------------------------------------------ executor constants
\* the working progress message of each executor
ProgressText(a) ==
    CASE a = "orchestrator"  -> Lit("Isteginizi analiz ediyorum ve uygun uzman ajana yonlendiriyorum...")
      [] a = "product_agent" -> Lit("Urun katalogunu arastiriyorum...")
      [] a = "order_agent"   -> Lit("Siparis bilgilerinizi kontrol ediyorum...")
      [] a = "search_agent"  -> Lit("Web'de arastiriyorum...")

\* the text substituted when the loop produced no text
ApologyText(a) ==
    CASE a = "orchestrator"  -> Lit("Uzgunum, isteginizi isleyemedim. Lutfen tekrar deneyin.")
      [] a = "product_agent" -> Lit("Uzgunum, bu konuda size yardimci olamadim.")
      [] a = "order_agent"   -> Lit("Uzgunum, bu konuda size yardimci olamadim.")
      [] a = "search_agent"  -> Lit("Web aramasi tamamlandi ancak sonuc bulunamadi.")

\* the message of the failed status: an f-string around str(e)
FailText_bare(a, err) == err.msg

FailText(a, err) ==
    CASE a = "orchestrator"  -> Lit("Sistem hatasi: ") \o err.msg \o Lit(". Lutfen tekrar deneyin.")
      [] a = "product_agent" -> Lit("Bir hata olustu: ") \o err.msg
      [] a = "order_agent"   -> Lit("Bir hata olustu: ") \o err.msg
      [] a = "search_agent"  -> Lit("Arama hatasi: ") \o err.msg

\* the executors with a statement after complete() inside the try block
\* (logger.info); the search executor has none
LogsAfterComplete(a) == a # "search_agent"

\* -------------------------------------------------------------- exceptions
Exception(ty, m) == [type |-> ty, msg |-> m]
NoException == Exception(None, <<>>)

\* str(e) of the exceptions of each type; a model error may have none
ErrMsgs(ty) == IF ty = "model_error" THEN {<<>>, Lit(ty)} ELSE {Lit(ty)}

\* ------------------------------------------------------------------- state
VARIABLES
    agent,            \* the executor this process hosts
    tavily_api_key,   \* settings.tavily_api_key is set
    nextTask,         \* tasks created so far (new_task)
    events,           \* per execution: the events enqueued on its event_queue
    state,            \* per task: the state of the last status enqueued for it
    pc,               \* per execution: the statement execute() is at
    task,             \* per execution: task.id
    exc,              \* per execution: the exception raised, or None
    final_response,   \* per execution: the local final_response
    messages,         \* per execution: state["messages"] of the graph run
    results,          \* per execution: the ToolNode's calls of this turn
    rounds,           \* model answers that requested tools, over all executions
    toolCalls,        \* tool invocations the model requested, over all executions
    budget,           \* the element of Budgets this behaviour explores
    probe,            \* input and result of a delegation tried on its own
    cancel_exc,       \* per task: the exception its last cancel() raised, or None
    chat,             \* the request POST /api/chat is handling, and its answer
    repo,             \* PRODUCTS, CUSTOMERS and ORDERS of data.mock_data
    call,             \* a tool invoked on its own, and its result
    succeeded,        \* per order: the cancel_order calls answered with success
    web,              \* a web-search tool invoked on its own, and its result
    net,              \* a network call awaited on its own, and how it ended
    sent              \* per execution: the messages of its last llm.ainvoke

vars == <<agent, tavily_api_key, nextTask, events, state, pc, task, exc,
          final_response, messages, results, rounds, toolCalls, budget, probe,
          cancel_exc, chat, repo, call, succeeded, web, net, sent>>

toolVars == <<repo, call, succeeded>>

\* ------------------------------------------------------------------ events
\* the task object of new_task, and the events of the TaskUpdater of
\* execution e, which carry the task id the updater was built with
TaskEvent(e, t) ==
    [by |-> e, task |-> t, type |-> "task", state |-> "submitted", text |-> <<>>]
StatusEvent(e, s, m) ==
    [by |-> e, task |-> task[e], type |-> "status", state |-> s, text |-> m]
ArtifactEvent(e, t) ==
    [by |-> e, task |-> task[e], type |-> "artifact", state |-> None, text |-> t]

\* event_queue.enqueue_event of a status or artifact event by execution e
Enqueue_front(e, ev) ==
    /\ events' = [events EXCEPT ![e] = <<ev>> \o @]
    /\ state' = IF ev.type = "status" THEN [state EXCEPT ![task[e]] = ev.state]
                                     ELSE state

Enqueue(e, ev) ==
    /\ events' = [events EXCEPT ![e] = Append(@, ev)]
    /\ state' = IF ev.type = "status" THEN [state EXCEPT ![task[e]] = ev.state]
                                     ELSE state


\* --------------------------------------------------- conversation messages
\* message.content is a string or a list of content blocks
ContentStr(t) == [shape |-> "str", text |-> t, blocks |-> <<>>]
ContentList(bs) == [shape |-> "list", text |-> <<>>, blocks |-> bs]
TextBlock(t) == [type |-> "text", text |-> t]
ToolUseBlock == [type |-> "tool_use", text |-> <<>>]

HumanMessage(t) ==
    [role |-> "user", content |-> ContentStr(t), tool_calls |-> <<>>, tool_call_id |-> <<>>]
AIMessage(c, calls) ==
    [role |-> "assistant", content |-> c, tool_calls |-> calls, tool_call_id |-> <<>>]
ToolMessage(id, t) ==
    [role |-> "tool", content |-> ContentStr(t), tool_calls |-> <<>>, tool_call_id |-> id]

\* [SystemMessage(content=SYSTEM_PROMPT)] + state["messages"] of call_model,
\* for the run of execution e
SystemMessage(a) ==
    [role |-> "system", content |-> ContentStr(<<Piece(<<"SYSTEM_PROMPT", a>>, 1)>>),
     tool_calls |-> <<>>, tool_call_id |-> <<>>]

ModelInput_no_system(a, msgs, e) == msgs[e]

ModelInput_shared(a, msgs, e) == <<SystemMessage(a)>> \o msgs[1]

ModelInput(a, msgs, e) == <<SystemMessage(a)>> \o msgs[e]

\* Python truth of message.content
Truthy(c) == IF c.shape = "str" THEN c.text # <<>> ELSE c.blocks # <<>>

\* " ".join(c["text"] for c in content if c is a dict of type "text")
RECURSIVE JoinText(_)
JoinText(bs) ==
    IF bs = <<>> THEN <<>>
    ELSE IF Head(bs).type # "text" THEN JoinText(Tail(bs))
    ELSE LET rest == JoinText(Tail(bs))
             more == \E i \in DOMAIN Tail(bs) : Tail(bs)[i].type = "text"
         IN  IF more THEN Head(bs).text \o Lit(" ") \o rest ELSE Head(bs).text

\* the body of the `async for chunk` loop of execute(): final_response
\* after a chunk whose messages are msgs
ChunkText(fr, msgs) ==
    IF msgs = <<>> THEN fr
    ELSE LET last_msg == msgs[Len(msgs)]
         IN  IF last_msg.role = "assistant" /\ Truthy(last_msg.content)
             THEN IF last_msg.content.shape = "list"
                  THEN JoinText(last_msg.content.blocks)
                  ELSE last_msg.content.text
             ELSE fr

\* `if not final_response: final_response = <apology>`
FinalOrApology_none(a, fr) == fr

FinalOrApology(a, fr) == IF fr = <<>> THEN ApologyText(a) ELSE fr

\* the conditional edge after the model node
should_continue_never(msgs) == "END"

should_continue(msgs) ==
    LET last == msgs[Len(msgs)]
    IN  IF last.role = "assistant" /\ last.tool_calls # <<>> THEN "tools" ELSE "END"

\* what the model may answer in its m-th call of execution e: no content,
\* a string, a block list with a text block, a block list without one
ModelContents(e, m) ==
    { ContentStr(<<>>),
      ContentStr(AnswerText(e, m)),
      ContentList(<<TextBlock(AnswerText(e, m)), ToolUseBlock>>),
      ContentList(<<ToolUseBlock>>) }

\* the number of the next answer of a run whose messages are msgs
Turn(msgs) == Cardinality({i \in DOMAIN msgs : msgs[i].role = "assistant"}) + 1

\* the invocation identifiers of the n calls requested in the m-th answer
CallIds(m, n) == [i \in 1..n |-> <<m, i>>]

\* ------------------------------------------------------------------- tools
\* what a tool function hands back to ToolNode
Returns(t) == [raised |-> FALSE, text |-> t, err |-> NoException]
Raises(ty, m) == [raised |-> TRUE, text |-> <<>>, err |-> Exception(ty, m)]

\* the tools of each agent that go through _call_mcp_tool
McpTools(a) ==
    CASE a = "product_agent" -> {"search_products", "get_product_details",
                                 "check_product_availability", "get_recommendations"}
      [] a = "order_agent"   -> {"get_order_status", "get_customer_orders",
                                 "cancel_order", "get_customer_profile"}
      [] OTHER               -> {}

\* the tools of each agent that call the external search provider
WebTools(a) ==
    CASE a = "product_agent" -> {"web_search_products"}
      [] a = "order_agent"   -> {"web_search_shipping"}
      [] a = "search_agent"  -> {"web_search", "compare_prices",
                                 "get_product_reviews_web", "get_trending_products"}
      [] OTHER               -> {}

\* the orchestrator's delegation tools and the agent each one names
DelegTools(a) ==
    IF a = "orchestrator"
    THEN {"ask_product_agent", "ask_order_agent", "ask_search_agent"}
    ELSE {}

AgentName(tool) ==
    CASE tool = "ask_product_agent" -> "Product Agent"
      [] tool = "ask_order_agent"   -> "Order Agent"
      [] tool = "ask_search_agent"  -> "Search Agent"

AgentNames == {"Product Agent", "Order Agent", "Search Agent"}

\* the states of the tool backend as one POST /tool sees it
Backends == {"ok", "malformed_body", "unreachable", "timeout", "http_error"}

\* the states of the external search provider as one search sees it
SearchStates == {"ok", "unreachable", "timeout", "error", "malformed_body"}

\* the local fallback: a JSON text for every tool name
_direct_tool_call(a, tool_name) ==
    LET known == IF a = "product_agent"
                 THEN {"search_products", "get_product_details", "get_recommendations"}
                 ELSE {"get_order_status", "get_customer_orders",
                       "cancel_order", "get_customer_profile"}
    IN  IF tool_name \in known
        THEN Returns(Lit("local result"))
        ELSE Returns(Lit("error: tool not available"))

\* resp.text of a success response: the body, whatever it is; a malformed
\* body may be empty
ResponseText(backend) == IF backend = "ok" THEN Lit("resp.text") ELSE <<>>

\* POST /tool; on any exception the local fallback
_call_mcp_tool_reraise(a, tool_name, backend) ==
    IF backend \in {"ok", "malformed_body"}
    THEN Returns(ResponseText(backend))
    ELSE Raises("tool_error", Lit(backend))

_call_mcp_tool(a, tool_name, backend) ==
    IF backend \in {"ok", "malformed_body"}
    THEN Returns(ResponseText(backend))
    ELSE _direct_tool_call(a, tool_name)

\* web_search, compare_prices, get_product_reviews_web, get_trending_products,
\* web_search_products, web_search_shipping: the disabled payload without a
\* key, else one search whose every exception becomes an error payload
web_search(tool_name, key, search) ==
    IF ~key
    THEN Returns(Lit("message: web search disabled") \o Lit("results: []"))
    ELSE IF search = "ok"
         THEN Returns(Lit("search results"))
         ELSE IF tool_name \in {"web_search", "web_search_products"}
              THEN Returns(Lit("error: str(e)") \o Lit("results: []"))
              ELSE Returns(Lit("error: str(e)"))

\* get_agent_capabilities: a fixed JSON text
get_agent_capabilities == Returns(Lit("agents: [...]"))


\* -------------------------------------------------------- delegation client
\* what client.send_message gives: an exception, or a response whose root
\* has a result (a task with artifacts and a status) or has none (an error
\* response).  A part has a text or has none.
NoStatus == [message |-> FALSE, parts |-> <<>>]
StatusMessage(parts) == [message |-> TRUE, parts |-> parts]
SendRaises(ty, m) == [kind |-> "raise", err |-> Exception(ty, m),
                      hasResult |-> FALSE, artifacts |-> <<>>, status |-> NoStatus]
SendReturns(hr, arts, st) == [kind |-> "response", err |-> NoException,
                              hasResult |-> hr, artifacts |-> arts, status |-> st]
TextPart(t) == [hasText |-> TRUE, text |-> t]
DataPart == [hasText |-> FALSE, text |-> <<>>]

\* result_text += part.root.text over the parts that have a text
RECURSIVE PartsText(_)
PartsText(parts) ==
    IF parts = <<>> THEN <<>>
    ELSE (IF Head(parts).hasText THEN Head(parts).text ELSE <<>>) \o PartsText(Tail(parts))

RECURSIVE ArtifactsText(_)
ArtifactsText(arts) ==
    IF arts = <<>> THEN <<>> ELSE PartsText(Head(arts)) \o ArtifactsText(Tail(arts))

\* the text extracted from a response: artifacts when the list is not empty,
\* else the status message
ResultText(r) ==
    IF ~r.hasResult THEN <<>>
    ELSE IF r.artifacts # <<>> THEN ArtifactsText(r.artifacts)
    ELSE IF r.status.message THEN PartsText(r.status.parts)
    ELSE <<>>

\* the fallback string of the except clause
Unreachable(agent_name, short_err) ==
    Lit(agent_name) \o Lit(" su anda ulasilamiyor (") \o short_err
        \o Lit("). Lutfen daha sonra tekrar deneyin.")

_delegate_to_agent_reraise(agent_name, r) ==
    IF r.kind = "raise"
    THEN [raised |-> TRUE, text |-> <<>>, err |-> r.err, attempts |-> 1]
    ELSE [raised |-> FALSE, text |-> ResultText(r), err |-> NoException, attempts |-> 1]

_delegate_to_agent_uncut(agent_name, r) ==
    IF r.kind = "raise"
    THEN [raised |-> FALSE, text |-> Unreachable(agent_name, r.err.msg),
          err |-> NoException, attempts |-> 1]
    ELSE [raised |-> FALSE, text |-> ResultText(r), err |-> NoException, attempts |-> 1]

\* one send_message to the agent named agent_name, answered by r
_delegate_to_agent(agent_name, r) ==
    IF r.kind = "raise"
    THEN [raised |-> FALSE, text |-> Unreachable(agent_name, Take(r.err.msg, ErrCut)),
          err |-> NoException, attempts |-> 1]
    ELSE LET result_text == ResultText(r)
         IN  [raised |-> FALSE,
              text |-> IF result_text # <<>> THEN result_text
                       ELSE Lit(agent_name) \o Lit(" yanit vermedi."),
              err |-> NoException, attempts |-> 1]

\* the transport failures of one send_message: connection refused, timeout,
\* malformed response; str(e) empty, of exactly ErrCut characters, longer
TransportErrors ==
    { SendRaises(ty, Str(ty, n)) :
        ty \in {"ConnectError", "ReadTimeout", "JSONDecodeError"},
        n \in {0, ErrCut, ErrCut + 50} }

\* the responses a downstream executor can cause: an error response (its
\* execute raised), a completed task with its artifact, a failed task with
\* its status message, with or without an artifact attached before
DownstreamText(s) == <<Piece(<<"downstream", s>>, 1)>>

Responses ==
    { SendReturns(FALSE, <<>>, NoStatus),
      SendReturns(TRUE, <<<<TextPart(DownstreamText("artifact"))>>>>, NoStatus),
      SendReturns(TRUE, <<>>, StatusMessage(<<TextPart(DownstreamText("failed"))>>)),
      SendReturns(TRUE, <<<<TextPart(DownstreamText("artifact"))>>>>,
                  StatusMessage(<<TextPart(DownstreamText("failed"))>>)),
      SendReturns(TRUE, <<<<DataPart>>>>,
                  StatusMessage(<<TextPart(DownstreamText("failed"))>>)),
      SendReturns(TRUE, <<>>, NoStatus) }

\* the answers one delegation of a loop run is tried against
LoopSendOutcomes ==
    { SendRaises("ConnectError", Str("ConnectError", ErrCut + 50)),
      SendReturns(TRUE, <<<<TextPart(DownstreamText("artifact"))>>>>, NoStatus),
      SendReturns(TRUE, <<>>, StatusMessage(<<TextPart(DownstreamText("failed"))>>)) }

\* whether an answer is a delegation failure: the agent is unreachable or
\* its task ended in failed
DelegationFailed(r) ==
    r.kind = "raise" \/ (r.hasResult /\ r.artifacts = <<>> /\ r.status.message)

\* ask_product_agent, ask_order_agent, ask_search_agent
ask_agent(tool_name, r) ==
    LET d == _delegate_to_agent(AgentName(tool_name), r)
    IN  [raised |-> d.raised, text |-> d.text, err |-> d.err]

\* every outcome a tool call of agent a can have, over the tool names and
\* the states of the backend, the search provider and the downstream agents
ToolOutcomes(a, key) ==
    { _call_mcp_tool(a, n, b) : n \in McpTools(a), b \in Backends }
    \cup { web_search(n, key, s) : n \in WebTools(a), s \in SearchStates }
    \cup { ask_agent(n, r) : n \in DelegTools(a), r \in LoopSendOutcomes }
    \cup (IF a = "orchestrator" THEN {get_agent_capabilities} ELSE {})


\* --------------------------------------------------------- data repository
\* The loop sees a tool's result as a text; what the tools compute over the
\* repository is modelled here.  A price is in 1/100, a rating in 1/10.
OrderStatus ==
    {"pending", "confirmed", "processing", "shipped", "delivered", "cancelled", "refunded"}

ProductCategory ==
    {"electronics", "clothing", "books", "home", "sports", "beauty", "toys", "food"}

\* a product; words: the query strings tried ("sony", "kablosuz", "zzz")
\* that occur, in lower case, in its name, description, tags or brand
Product(id, category, price, rating, in_stock, words, tags) ==
    [id |-> id, category |-> category, price |-> price, rating |-> rating,
     in_stock |-> in_stock, words |-> words, tags |-> tags]

PRODUCTS ==
    << Product("prod-001", "electronics", 89999, 48, TRUE, {"sony", "kablosuz"},
               {"kulaklik", "bluetooth", "gurultu engelleme", "sony", "premium"}),
       Product("prod-002", "electronics", 5499999, 49, TRUE, {},
               {"laptop", "apple", "macbook", "m3", "profesyonel"}),
       Product("prod-003", "clothing", 219999, 46, TRUE, {},
               {"ayakkabi", "spor", "nike", "kosu", "rahat"}),
       Product("prod-004", "electronics", 129999, 47, TRUE, {},
               {"e-kitap", "okuyucu", "kindle", "amazon", "okuma"}),
       Product("prod-005", "home", 1299999, 48, TRUE, {"kablosuz"},
               {"supurge", "kablosuz", "dyson", "temizlik", "ev"}),
       Product("prod-006", "electronics", 4799999, 47, TRUE, {},
               {"telefon", "samsung", "galaxy", "android", "kamera"}),
       Product("prod-007", "clothing", 89999, 45, FALSE, {},
               {"jean", "kot", "erkek", "levi's", "klasik"}),
       Product("prod-008", "home", 249999, 44, TRUE, {},
               {"akilli ev", "aydinlatma", "philips", "hue", "otomasyon"}),
       Product("prod-009", "books", 8999, 49, TRUE, {},
               {"kitap", "kisisel gelisim", "aliskanlik", "bestseller"}),
       Product("prod-010", "home", 329999, 46, TRUE, {},
               {"kahve", "nespresso", "espresso", "kapsul", "mutfak"}) >>

Customer(id, email) == [id |-> id, email |-> email]

CUSTOMERS ==
    << Customer("cust-001", "ahmet.yilmaz@example.com"),
       Customer("cust-002", "zeynep.kaya@example.com"),
       Customer("cust-003", "mehmet.demir@example.com") >>

Order(id, customer_id, customer_email, status) ==
    [id |-> id, customer_id |-> customer_id, customer_email |-> customer_email,
     status |-> status]

ORDERS ==
    << Order("ord-001", "cust-001", "ahmet.yilmaz@example.com", "shipped"),
       Order("ord-002", "cust-001", "ahmet.yilmaz@example.com", "delivered"),
       Order("ord-003", "cust-002", "zeynep.kaya@example.com", "processing"),
       Order("ord-004", "cust-003", "mehmet.demir@example.com", "confirmed") >>

\* the repository as the module data.mock_data holds it
Repository(products, customers, orders) ==
    [PRODUCTS |-> products, CUSTOMERS |-> customers, ORDERS |-> orders]

MockData == Repository(PRODUCTS, CUSTOMERS, ORDERS)

\* the repositories a run starts from: the module's data, or the same with
\* one order in another status of OrderStatus
Repositories ==
    { Repository(PRODUCTS, CUSTOMERS, [ORDERS EXCEPT ![i].status = s]) :
        i \in DOMAIN ORDERS, s \in OrderStatus }

\* str.lower() of the strings tried
lower(s) ==
    IF s = "SONY" THEN "sony"
    ELSE IF s = "AHMET.YILMAZ@EXAMPLE.COM" THEN "ahmet.yilmaz@example.com"
    ELSE s

\* the items of a list that satisfy Test, in the order of the list
Filter(seq, Test(_)) == SelectSeq(seq, Test)

\* next((x for x in seq if Test(x)), None): the list of the first such item
First(seq, Test(_)) ==
    LET found == Filter(seq, Test) IN IF found = <<>> THEN <<>> ELSE <<Head(found)>>

Ids(seq) == [i \in DOMAIN seq |-> seq[i].id]

get_product_by_id(db, product_id) ==
    First(db.PRODUCTS, LAMBDA p : product_id.t = "str" /\ p.id = product_id.s)

get_products_by_category(db, category) ==
    Filter(db.PRODUCTS, LAMBDA p : p.category = category)

\* query_lower in name, description, a tag or the brand, in lower case
search_products(db, query) ==
    LET query_lower == lower(query)
    IN  Filter(db.PRODUCTS, LAMBDA p : query_lower = "" \/ query_lower \in p.words)

get_order_by_id(db, order_id) ==
    First(db.ORDERS, LAMBDA o : order_id.t = "str" /\ o.id = order_id.s)

get_orders_by_customer(db, customer_id) ==
    Filter(db.ORDERS, LAMBDA o : customer_id.t = "str" /\ o.customer_id = customer_id.s)

get_orders_by_email(db, email) ==
    Filter(db.ORDERS, LAMBDA o : lower(o.customer_email) = lower(email))

get_customer_by_id(db, customer_id) ==
    First(db.CUSTOMERS, LAMBDA c : customer_id.t = "str" /\ c.id = customer_id.s)

get_customer_by_email(db, email) ==
    First(db.CUSTOMERS, LAMBDA c : lower(c.email) = lower(email))

\* sorted(seq, key = rating, reverse = True): stable, the earlier of two
\* equally rated products stays first
RECURSIVE SortByRating(_)
SortByRating(seq) ==
    IF seq = <<>> THEN <<>>
    ELSE LET best == CHOOSE i \in DOMAIN seq :
                         /\ \A j \in DOMAIN seq : seq[j].rating <= seq[i].rating
                         /\ \A j \in 1..(i - 1) : seq[j].rating < seq[i].rating
             rest == [j \in 1..(Len(seq) - 1) |-> IF j < best THEN seq[j] ELSE seq[j + 1]]
         IN  <<seq[best]>> \o SortByRating(rest)

\* seq[:n] for n >= 0
Slice(seq, n) == IF n >= Len(seq) THEN seq ELSE SubSeq(seq, 1, n)

\* ------------------------------------------------------------ tool payloads
\* a value of an argument object: absent, a string, a number or a boolean
Absent == [t |-> "absent", s |-> "", n |-> 0, b |-> FALSE]
S(x) == [t |-> "str", s |-> x, n |-> 0, b |-> FALSE]
N(x) == [t |-> "num", s |-> "", n |-> x, b |-> FALSE]
B(x) == [t |-> "bool", s |-> "", n |-> IF x THEN 1 ELSE 0, b |-> x]

\* Python truth of args.get(key)
truthy(v) ==
    CASE v.t = "absent" -> FALSE
      [] v.t = "str" -> v.s # ""
      [] v.t = "num" -> v.n # 0
      [] v.t = "bool" -> v.b

\* an argument object without any key
NoArgs ==
    [query |-> Absent, category |-> Absent, max_price |-> Absent, min_rating |-> Absent,
     in_stock_only |-> Absent, product_id |-> Absent, limit |-> Absent,
     order_id |-> Absent, email |-> Absent, customer_id |-> Absent]

\* what a tool function gives: the payload it returns (the dict that is
\* serialized), or the exception it raises
Payload(kind, ids, status, error, cancellable) ==
    [kind |-> kind, ids |-> ids, total |-> Len(ids), status |-> status,
     error |-> error, cancellable |-> cancellable]
NoPayload == Payload("none", <<>>, "", "", "absent")
Error(error) == Payload("error", <<>>, "", error, "absent")
Return(payload) == [raised |-> FALSE, exc |-> "", payload |-> payload]
Raise(ty) == [raised |-> TRUE, exc |-> ty, payload |-> NoPayload]

\* the filters of search_products after the query: a filter is applied when
\* its argument is true; ordering a number against a string is a TypeError,
\* raised as soon as one product is compared
FilterMaxPrice(found, args) ==
    IF ~truthy(args.max_price) THEN found
    ELSE Filter(found, LAMBDA p : p.price <= args.max_price.n)

FilterMinRating(found, args) ==
    IF ~truthy(args.min_rating) THEN found
    ELSE Filter(found, LAMBDA p : p.rating >= args.min_rating.n)

FilterInStock(found, args) ==
    IF ~truthy(args.in_stock_only) THEN found
    ELSE Filter(found, LAMBDA p : p.in_stock)

\* args[key] of a comparison that raises on the first product compared
Unordered(v, found) == truthy(v) /\ v.t = "str" /\ found # <<>>

\* related[: args.get("limit", 4)]
Limited(seq, args) ==
    IF args.limit.t = "str" THEN Raise("TypeError")
    ELSE Return(Payload("recommendations",
                        Ids(Slice(seq, IF args.limit.t = "absent" THEN 4 ELSE args.limit.n)),
                        "", "", "absent"))

\* the cancel_order branch after the order is found
CancelFound_any(order) == Return(Payload("success", <<order.id>>, "", "", "absent"))

CancelFound(order) ==
    IF order.status \notin {"pending", "confirmed"}
    THEN Return(Payload("error", <<>>, order.status, "not_cancellable", "false"))
    ELSE Return(Payload("success", <<order.id>>, "", "", "absent"))

\* _dispatch_tool of the MCP server
_dispatch_tool(name, args, db) ==
    CASE name = "search_products" ->
           IF args.query.t = "absent" THEN Raise("KeyError")
           ELSE IF args.query.t # "str" THEN Raise("AttributeError")
           ELSE LET r0 == search_products(db, args.query.s)
                    r1 == IF truthy(args.category)
                          THEN Filter(r0, LAMBDA p : args.category.t = "str"
                                                      /\ p.category = args.category.s)
                          ELSE r0
                    r2 == FilterMaxPrice(r1, args)
                    r3 == FilterMinRating(r2, args)
                    r4 == FilterInStock(r3, args)
                IN  IF Unordered(args.max_price, r1) THEN Raise("TypeError")
                    ELSE IF Unordered(args.min_rating, r2) THEN Raise("TypeError")
                    ELSE Return(Payload("products", Ids(r4), "", "", "absent"))
      [] name = "get_product_details" ->
           IF args.product_id.t = "absent" THEN Raise("KeyError")
           ELSE LET product == get_product_by_id(db, args.product_id)
                IN  IF product = <<>> THEN Return(Error("not_found"))
                    ELSE Return(Payload("product", Ids(product), "", "", "absent"))
      [] name = "get_products_by_category" ->
           IF args.category.t = "absent" THEN Raise("KeyError")
           ELSE IF ~(args.category.t = "str" /\ args.category.s \in ProductCategory)
           THEN Return(Error("unknown_category"))
           ELSE Return(Payload("products",
                               Ids(get_products_by_category(db, args.category.s)),
                               "", "", "absent"))
      [] name = "check_product_availability" ->
           IF args.product_id.t = "absent" THEN Raise("KeyError")
           ELSE LET product == get_product_by_id(db, args.product_id)
                IN  IF product = <<>> THEN Return(Error("not_found"))
                    ELSE Return(Payload("availability", Ids(product), "", "", "absent"))
      [] name = "get_order_status" ->
           IF args.order_id.t = "absent" THEN Raise("KeyError")
           ELSE LET order == get_order_by_id(db, args.order_id)
                IN  IF order = <<>> THEN Return(Error("not_found"))
                    ELSE Return(Payload("order", Ids(order), order[1].status, "", "absent"))
      [] name = "get_customer_orders" ->
           IF truthy(args.email)
           THEN IF args.email.t # "str" /\ db.ORDERS # <<>> THEN Raise("AttributeError")
                ELSE Return(Payload("orders", Ids(get_orders_by_email(db, args.email.s)),
                                    "", "", "absent"))
           ELSE IF truthy(args.customer_id)
           THEN Return(Payload("orders", Ids(get_orders_by_customer(db, args.customer_id)),
                               "", "", "absent"))
           ELSE Return(Error("missing_selector"))
      [] name = "get_customer_profile" ->
           IF truthy(args.email) /\ args.email.t # "str" /\ db.CUSTOMERS # <<>>
           THEN Raise("AttributeError")
           ELSE IF ~truthy(args.email) /\ ~truthy(args.customer_id)
           THEN Return(Error("missing_selector"))
           ELSE LET customer == IF truthy(args.email)
                                THEN get_customer_by_email(db, args.email.s)
                                ELSE get_customer_by_id(db, args.customer_id)
                IN  IF customer = <<>> THEN Return(Error("not_found"))
                    ELSE Return(Payload("customer", Ids(customer), "", "", "absent"))
      [] name = "get_recommendations" ->
           LET base == IF truthy(args.product_id)
                       THEN get_product_by_id(db, args.product_id) ELSE <<>>
           IN  IF base # <<>>
               THEN Limited(SortByRating(Filter(db.PRODUCTS,
                        LAMBDA p : p.id # base[1].id /\
                                   (p.category = base[1].category \/
                                    p.tags \cap base[1].tags # {}))), args)
               ELSE IF truthy(args.category) /\ args.category.t = "str"
                       /\ args.category.s \in ProductCategory
               THEN Limited(SortByRating(get_products_by_category(db, args.category.s)), args)
               ELSE Limited(SortByRating(db.PRODUCTS), args)
      [] name = "cancel_order" ->
           IF args.order_id.t = "absent" THEN Raise("KeyError")
           ELSE LET order == get_order_by_id(db, args.order_id)
                IN  IF order = <<>> THEN Return(Error("not_found"))
                    ELSE CancelFound(order[1])
      [] OTHER -> Return(Error("unknown_tool"))

\* call_tool of the MCP server: an exception of _dispatch_tool is returned
\* as {"error": str(e)}
call_tool(name, arguments, db) ==
    LET result == _dispatch_tool(name, arguments, db)
    IN  IF result.raised THEN Return(Error(result.exc)) ELSE result

\* _direct_tool_call of the product agent
product_direct_tool_call(tool_name, arguments, db) ==
    CASE tool_name = "search_products" ->
           IF arguments.query.t \notin {"absent", "str"} THEN Raise("AttributeError")
           ELSE LET r0 == search_products(db, arguments.query.s)
                    r1 == IF truthy(arguments.category)
                          THEN Filter(r0, LAMBDA p : arguments.category.t = "str"
                                                      /\ p.category = arguments.category.s)
                          ELSE r0
                    r2 == FilterMaxPrice(r1, arguments)
                    r3 == FilterInStock(r2, arguments)
                IN  IF Unordered(arguments.max_price, r1) THEN Raise("TypeError")
                    ELSE Return(Payload("products", Ids(r3), "", "", "absent"))
      [] tool_name = "get_product_details" ->
           IF arguments.product_id.t = "absent" THEN Raise("KeyError")
           ELSE LET p == get_product_by_id(db, arguments.product_id)
                IN  IF p = <<>> THEN Return(Error("not_found"))
                    ELSE Return(Payload("product", Ids(p), "", "", "absent"))
      [] tool_name = "get_recommendations" ->
           Return(Payload("recommendations", Ids(Slice(SortByRating(db.PRODUCTS), 4)),
                          "", "", "absent"))
      [] OTHER -> Return(Error("not_available"))

\* _direct_tool_call of the order agent
order_direct_tool_call(tool_name, arguments, db) ==
    CASE tool_name = "get_order_status" ->
           IF arguments.order_id.t = "absent" THEN Raise("KeyError")
           ELSE LET order == get_order_by_id(db, arguments.order_id)
                IN  IF order = <<>> THEN Return(Error("not_found"))
                    ELSE Return(Payload("order", Ids(order), order[1].status, "", "absent"))
      [] tool_name = "get_customer_orders" ->
           IF truthy(arguments.email)
           THEN IF arguments.email.t # "str" /\ db.ORDERS # <<>> THEN Raise("AttributeError")
                ELSE Return(Payload("orders", Ids(get_orders_by_email(db, arguments.email.s)),
                                    "", "", "absent"))
           ELSE IF truthy(arguments.customer_id)
           THEN Return(Payload("orders",
                               Ids(get_orders_by_customer(db, arguments.customer_id)),
                               "", "", "absent"))
           ELSE Return(Error("missing_selector"))
      [] tool_name = "cancel_order" ->
           IF arguments.order_id.t = "absent" THEN Raise("KeyError")
           ELSE LET order == get_order_by_id(db, arguments.order_id)
                IN  IF order = <<>> THEN Return(Error("not_found"))
                    ELSE CancelFound(order[1])
      [] tool_name = "get_customer_profile" ->
           IF arguments.email.t \notin {"absent", "str"} /\ db.CUSTOMERS # <<>>
           THEN Raise("AttributeError")
           ELSE LET customer == get_customer_by_email(db, arguments.email.s)
                IN  IF customer = <<>> THEN Return(Error("not_found"))
                    ELSE Return(Payload("customer", Ids(customer), "", "", "absent"))
      [] OTHER -> Return(Error("not_available"))

\* the local fallback of agent a, on the payloads
DirectToolCall(a, tool_name, arguments, db) ==
    IF a = "product_agent" THEN product_direct_tool_call(tool_name, arguments, db)
    ELSE order_direct_tool_call(tool_name, arguments, db)

\* the routes of build_starlette_app and the methods each one answers
Routes == {<<"/health", "GET">>, <<"/sse", "GET">>, <<"/messages/", "POST">>}

\* the answer of the MCP server's HTTP application to a request with the
\* JSON body {name, arguments}: no route matches the path, 404; the path
\* matches with another method, 405; else the route's handler answers (0:
\* the answer is the SSE transport's)
Respond(method, path, name, arguments, db) ==
    IF \A r \in Routes : r[1] # path
    THEN [status |-> 404, body |-> NoPayload]
    ELSE IF <<path, method>> \notin Routes
    THEN [status |-> 405, body |-> NoPayload]
    ELSE [status |-> IF path = "/health" THEN 200 ELSE 0, body |-> NoPayload]

\* _call_mcp_tool of agent a on the payloads: what it returns, where it has
\* it from and whether _direct_tool_call ran
McpResult(via, text, out) == [via |-> via, text |-> text, out |-> out]

CallMcpTool_backend_only(a, tool_name, arguments, backend, db) ==
    IF backend \in {"ok", "malformed_body"}
    THEN McpResult("backend", ResponseText(backend), Return(NoPayload))
    ELSE McpResult("none", <<>>, Raise("HTTPError"))

CallMcpTool(a, tool_name, arguments, backend, db) ==
    IF backend \in {"ok", "malformed_body"}
    THEN McpResult("backend", ResponseText(backend), Return(NoPayload))
    ELSE McpResult("fallback", <<>>, DirectToolCall(a, tool_name, arguments, db))

\* the tool names tried: the registered ones and one that is not
ToolNames ==
    {"search_products", "get_product_details", "get_products_by_category",
     "check_product_availability", "get_order_status", "get_customer_orders",
     "get_customer_profile", "get_recommendations", "cancel_order", "no_such_tool"}

\* the argument objects tried with a tool: its keys absent, well typed
\* (naming an entity that exists or one that does not) or of a wrong type
Arguments(name) ==
    CASE name = "search_products" ->
           { [NoArgs EXCEPT !.query = q, !.category = c, !.max_price = mp,
                            !.min_rating = mr, !.in_stock_only = st] :
               q \in {Absent, N(7), S(""), S("SONY"), S("kablosuz"), S("zzz")},
               c \in {Absent, S("electronics")},
               mp \in {Absent, N(100000), S("cheap")},
               mr \in {Absent, N(48)},
               st \in {Absent, B(TRUE)} }
      [] name \in {"get_product_details", "check_product_availability"} ->
           { [NoArgs EXCEPT !.product_id = id] :
               id \in {Absent, S("prod-001"), S("prod-007"), S("prod-999"), N(1)} }
      [] name = "get_products_by_category" ->
           { [NoArgs EXCEPT !.category = c] : c \in {Absent, S("home"), S("nocategory")} }
      [] name = "get_recommendations" ->
           { [NoArgs EXCEPT !.product_id = id, !.category = c, !.limit = l] :
               id \in {Absent, S("prod-001"), S("prod-999")},
               c \in {Absent, S("home"), S("nocategory")},
               l \in {Absent, N(1), N(4), S("four")} }
      [] name \in {"get_order_status", "cancel_order"} ->
           { [NoArgs EXCEPT !.order_id = id] :
               id \in {Absent, N(1), S("ord-999")} \cup {S(ORDERS[i].id) : i \in DOMAIN ORDERS} }
      [] name \in {"get_customer_orders", "get_customer_profile"} ->
           { [NoArgs EXCEPT !.email = m, !.customer_id = id] :
               m \in {Absent, N(1), S("ahmet.yilmaz@example.com"),
                      S("AHMET.YILMAZ@EXAMPLE.COM"), S("nobody@example.com")},
               id \in {Absent, S("cust-001"), S("cust-999")} }
      [] OTHER -> {NoArgs}

\* the ways a tool is invoked: call_tool of the MCP server, a POST /tool to
\* its HTTP application, the local fallback of an agent, _call_mcp_tool of an
\* agent
Vias == {"call_tool", "POST /tool", "_direct_tool_call", "_call_mcp_tool"}

\* no tool is invoked on its own
NoCall == [at |-> "none", via |-> "none", backend |-> "none", name |-> "", args |-> NoArgs,
           status |-> 0, result |-> McpResult("none", <<>>, Return(NoPayload))]

\* the repository after a tool ran: no branch of a tool writes to it ("in
\* production this would update the DB; here we simulate")
Stored_cancelled(db, name, args, out) ==
    IF name = "cancel_order" /\ ~out.raised /\ out.payload.kind = "success"
    THEN [db EXCEPT !.ORDERS = [i \in DOMAIN db.ORDERS |->
              IF db.ORDERS[i].id = args.order_id.s
              THEN [db.ORDERS[i] EXCEPT !.status = "cancelled"] ELSE db.ORDERS[i]]]
    ELSE db

Stored(db, name, args, out) == db

\* ----------------------------------------------------------- web-search tools
\* the JSON object a web-search tool returns: its keys, and the items of
\* the list it holds (none when it holds no list)
WebPayload(keys, items) == [keys |-> keys, items |-> items]

\* the key of the list of hits in each tool's answer
ListKey(tool_name) ==
    CASE tool_name = "compare_prices"          -> "price_sources"
      [] tool_name = "get_product_reviews_web" -> "reviews"
      [] tool_name = "get_trending_products"   -> "sources"
      [] OTHER                                 -> "results"

\* the other keys of each tool's answer
AnswerKeys(tool_name) ==
    CASE tool_name = "compare_prices"          -> {"product", "answer"}
      [] tool_name = "get_product_reviews_web" -> {"product", "summary"}
      [] tool_name = "get_trending_products"   -> {"category", "trending_summary"}
      [] OTHER                                 -> {"answer"}

\* results.get("results", []) of a search the provider answered
Hits == <<"hit-1", "hit-2">>

\* `if not settings.tavily_api_key`
Disabled_never(key) == FALSE

Disabled(key) == ~key

\* {"message": ..., "results": []}
DisabledPayload == WebPayload({"message", "results"}, <<>>)

\* the answer after client.search: the hits, or the except clause's
\* {"error": str(e)}, with "results": [] in web_search and web_search_products
SearchedPayload(tool_name, provider) ==
    IF provider = "ok"
    THEN WebPayload(AnswerKeys(tool_name) \cup {ListKey(tool_name)}, Hits)
    ELSE IF tool_name \in {"web_search", "web_search_products"}
    THEN WebPayload({"error", "results"}, <<>>)
    ELSE WebPayload({"error"}, <<>>)

\* the queries tried
Queries == {"kulaklik", ""}

\* no web-search tool is invoked on its own
NoSearch == [at |-> "none", name |-> "", query |-> "", provider |-> "none",
             searches |-> 0, raised |-> FALSE, payload |-> WebPayload({}, <<>>)]

\* ------------------------------------------------------------- network calls
\* the network calls on the path of a request of agent a, with a key or
\* without: the model invocation, and one call per tool that reaches the
\* search provider, the tool backend or another agent
NetworkCalls(a, key) ==
    { [kind |-> "model", name |-> "llm.ainvoke"] }
    \cup { [kind |-> "search", name |-> n] : n \in IF key THEN WebTools(a) ELSE {} }
    \cup { [kind |-> "backend", name |-> n] : n \in McpTools(a) }
    \cup { [kind |-> "delegation", name |-> n] : n \in DelegTools(a) }

\* the timeout the code gives each call, in seconds: httpx.AsyncClient(
\* timeout=60.0) of the delegation, httpx.AsyncClient(timeout=15.0) of the
\* backend call; ChatOpenAI(...) and TavilyClient(...).search(...) are given
\* none
Timeout(kind) ==
    CASE kind = "delegation" -> [set |-> TRUE, seconds |-> 60]
      [] kind = "backend"    -> [set |-> TRUE, seconds |-> 15]
      [] OTHER               -> [set |-> FALSE, seconds |-> 0]

\* what the caller has when the collaborator answers
Answered(a, c) ==
    CASE c.kind = "model"      -> Returns(AnswerText(0, 1))
      [] c.kind = "search"     -> web_search(c.name, TRUE, "ok")
      [] c.kind = "backend"    -> _call_mcp_tool(a, c.name, "ok")
      [] c.kind = "delegation" ->
             ask_agent(c.name, SendReturns(TRUE, <<<<TextPart(DownstreamText("artifact"))>>>>,
                                           NoStatus))

\* what the caller has when the timeout of the call expires: the except
\* clause around the call
Expired(a, c) ==
    CASE c.kind = "backend"    -> _call_mcp_tool(a, c.name, "timeout")
      [] c.kind = "delegation" ->
             ask_agent(c.name, SendRaises("ReadTimeout", Str("ReadTimeout", 1)))

\* no network call is awaited on its own
NoNet == [at |-> "none", kind |-> "none", name |-> "", answers |-> FALSE,
          how |-> "none", out |-> Returns(<<>>)]

\* ---------------------------------------------------------------- executor
\* settings.tavily_api_key is read by the web-search tools alone: it is set
\* or not where one of them can be called
KeySettings(a, b) == IF WebTools(a) = {} \/ b.calls = 0 THEN {FALSE} ELSE BOOLEAN

\* ------------------------------------------------------- the chat endpoint
\* str.strip(): the whitespace at both ends is removed
IsSpace(p) == p.txt = <<" ">>

RECURSIVE lstrip(_)
lstrip(t) == IF t = <<>> THEN <<>> ELSE IF IsSpace(Head(t)) THEN lstrip(Tail(t)) ELSE t

RECURSIVE rstrip(_)
rstrip(t) ==
    IF t = <<>> THEN <<>>
    ELSE IF IsSpace(t[Len(t)]) THEN rstrip(SubSeq(t, 1, Len(t) - 1)) ELSE t

strip_none(t) == t

strip(t) == rstrip(lstrip(t))

\* the body of a POST /api/chat: not JSON, a JSON value that is no object,
\* or an object whose "message" is absent, null, a number or a string, and
\* whose "session_id" is given or not
Body(k, f, m, sid) == [kind |-> k, field |-> f, message |-> m, session_id |-> sid]

ChatText == <<Piece(<<"chat">>, 1)>>

Bodies ==
    { Body(k, "absent", <<>>, FALSE) : k \in {"not_json", "not_object"} }
    \cup { Body("object", f, <<>>, sid) : f \in {"absent", "null", "number"}, sid \in BOOLEAN }
    \cup { Body("object", "str", m, sid) :
             m \in { <<>>, Str(" ", 1), Str(" ", 3), ChatText,
                     Str(" ", 2) \o ChatText \o Str(" ", 1) },
             sid \in BOOLEAN }

\* no request is being handled
NoChat == [at |-> "none", body |-> Body("not_json", "absent", <<>>, FALSE),
           status |-> 0, key |-> "none", text |-> <<>>, session_id |-> "none",
           messages |-> <<>>, final_response |-> <<>>, results |-> <<>>]

\* return JSONResponse({key: text, ...}, status_code)
JSONResponse(c, status, key, text) ==
    [c EXCEPT !.at = "answered", !.status = status, !.key = key, !.text = text,
              !.messages = <<>>, !.final_response = <<>>, !.results = <<>>]

\* no delegation is tried on its own
NoProbe == [at |-> "none", name |-> "", r |-> SendReturns(FALSE, <<>>, NoStatus),
            out |-> [raised |-> FALSE, text |-> <<>>, err |-> NoException, attempts |-> 0]]

InitOver(budgets, repos) ==
    /\ agent \in Agents
    /\ budget \in budgets
    /\ tavily_api_key \in KeySettings(agent, budget)
    /\ nextTask = 0
    /\ events = [e \in Execs |-> <<>>]
    /\ state = [t \in Tasks |-> None]
    /\ pc = [e \in Execs |-> "idle"]
    /\ task = [e \in Execs |-> 0]
    /\ exc = [e \in Execs |-> NoException]
    /\ final_response = [e \in Execs |-> <<>>]
    /\ messages = [e \in Execs |-> <<>>]
    /\ results = [e \in Execs |-> <<>>]
    /\ rounds = 0
    /\ toolCalls = 0
    /\ probe = NoProbe
    /\ cancel_exc = [t \in Tasks |-> NoException]
    /\ chat = NoChat
    /\ repo \in repos
    /\ call = NoCall
    /\ succeeded = [i \in DOMAIN ORDERS |-> 0]
    /\ web = NoSearch
    /\ net = NoNet
    /\ sent = [e \in Execs |-> <<>>]

Init == InitOver(Budgets, {MockData})

\* execute() calls are numbered in the order they begin
Begins(e) ==
    /\ pc[e] = "idle"
    /\ e <= budget.execs
    /\ \A f \in Execs : f < e => pc[f] # "idle"

loopVars == <<final_response, messages, results, rounds, toolCalls, sent>>
confVars == <<agent, tavily_api_key, budget, probe, cancel_exc, chat, toolVars, web, net>>

\* a statement of execute() outside the try block raises: the exception
\* leaves execute()
Escapes(e, ty) ==
    /\ \E m \in ErrMsgs(ty) : exc' = [exc EXCEPT ![e] = Exception(ty, m)]
    /\ pc' = [pc EXCEPT ![e] = "raised"]

\* a statement inside the try block raises: control is in the except clause
Caught(e, ty) ==
    /\ \E m \in ErrMsgs(ty) : exc' = [exc EXCEPT ![e] = Exception(ty, m)]
    /\ pc' = [pc EXCEPT ![e] = "except"]

\* execute() returns: its locals are gone
Returns_(e) ==
    /\ pc' = [pc EXCEPT ![e] = "returned"]
    /\ final_response' = [final_response EXCEPT ![e] = <<>>]
    /\ exc' = [exc EXCEPT ![e] = NoException]

restVars == <<messages, results, rounds, toolCalls, sent>>

\* execute(), message without a task: new_task and its event
execute_new(e) ==
    /\ Begins(e)
    /\ nextTask < MaxExec
    /\ nextTask' = nextTask + 1
    /\ task' = [task EXCEPT ![e] = nextTask + 1]
    /\ events' = [events EXCEPT ![e] = Append(@, TaskEvent(e, nextTask + 1))]
    /\ state' = [state EXCEPT ![nextTask + 1] = "submitted"]
    /\ pc' = [pc EXCEPT ![e] = "submit"]
    /\ UNCHANGED <<exc, loopVars, confVars>>

\* execute(), context without a message: raise ServerError(InvalidParamsError)
execute_no_message(e) ==
    /\ Begins(e)
    /\ Escapes(e, "InvalidParamsError")
    /\ UNCHANGED <<nextTask, task, events, state, loopVars, confVars>>

\* execute(), message of an existing task: context.current_task
execute_existing(e) ==
    /\ Begins(e)
    /\ \E t \in 1..nextTask : task' = [task EXCEPT ![e] = t]
    /\ pc' = [pc EXCEPT ![e] = "submit"]
    /\ UNCHANGED <<nextTask, events, state, exc, loopVars, confVars>>

\* await updater.submit()
submit(e) ==
    /\ pc[e] = "submit"
    /\ Enqueue(e, StatusEvent(e, "submitted", <<>>))
    /\ pc' = [pc EXCEPT ![e] = "start_work"]
    /\ UNCHANGED <<nextTask, task, exc, loopVars, confVars>>

submit_raises(e) ==
    /\ pc[e] = "submit"
    /\ Escapes(e, "queue_error")
    /\ UNCHANGED <<nextTask, task, events, state, loopVars, confVars>>

\* await updater.start_work()
start_work(e) ==
    /\ pc[e] = "start_work"
    /\ Enqueue(e, StatusEvent(e, "working", <<>>))
    /\ pc' = [pc EXCEPT ![e] = "update_status"]
    /\ UNCHANGED <<nextTask, task, exc, loopVars, confVars>>

start_work_raises(e) ==
    /\ pc[e] = "start_work"
    /\ Escapes(e, "queue_error")
    /\ UNCHANGED <<nextTask, task, events, state, loopVars, confVars>>

\* await updater.update_status(working, message); then the graph run starts
\* from [HumanMessage(query)] and its first chunk (the input) is consumed
update_status(e) ==
    /\ pc[e] = "update_status"
    /\ Enqueue(e, StatusEvent(e, "working", ProgressText(agent)))
    /\ messages' = [messages EXCEPT ![e] = <<HumanMessage(get_user_input(e))>>]
    /\ final_response' = [final_response EXCEPT ![e] =
                             ChunkText(<<>>, <<HumanMessage(get_user_input(e))>>)]
    /\ pc' = [pc EXCEPT ![e] = "model"]
    /\ UNCHANGED <<nextTask, task, exc, results, rounds, toolCalls, sent, confVars>>

update_status_raises(e) ==
    /\ pc[e] = "update_status"
    /\ Caught(e, "queue_error")
    /\ UNCHANGED <<nextTask, task, events, state, loopVars, confVars>>

\* ---------------------------------------------------------------- the loop
\* the model node: llm.ainvoke returns a message with n tool calls; the
\* chunk is consumed; should_continue routes to the tools node or to END.
\* At END the graph state is dropped and the apology is substituted for an
\* empty final_response
call_model(e) ==
    /\ pc[e] = "model"
    /\ \E c \in ModelContents(e, Turn(messages[e])), n \in 0..MaxToolCalls :
         LET m == Turn(messages[e])
             response == AIMessage(c, CallIds(m, n))
             msgs == Append(messages[e], response)
             fr == ChunkText(final_response[e], msgs)
         IN  /\ n > 0 => rounds < budget.rounds /\ toolCalls + n <= budget.calls
             /\ toolCalls' = toolCalls + n
             /\ rounds' = rounds + (IF n > 0 THEN 1 ELSE 0)
             /\ sent' = [sent EXCEPT ![e] = ModelInput(agent, messages, e)]
             /\ IF should_continue(msgs) = "tools"
                THEN /\ pc' = [pc EXCEPT ![e] = "tools"]
                     /\ messages' = [messages EXCEPT ![e] = msgs]
                     /\ final_response' = [final_response EXCEPT ![e] = fr]
                     /\ results' = [results EXCEPT ![e] =
                            [i \in 1..Len(response.tool_calls) |->
                                [id |-> response.tool_calls[i], done |-> FALSE, text |-> <<>>]]]
                ELSE /\ pc' = [pc EXCEPT ![e] = "add_artifact"]
                     /\ messages' = [messages EXCEPT ![e] = msgs]
                     /\ final_response' = [final_response EXCEPT ![e] =
                                              FinalOrApology(agent, fr)]
                     /\ UNCHANGED results
    /\ UNCHANGED <<nextTask, task, events, state, exc, confVars>>

\* llm.ainvoke raises: the exception leaves the graph run
call_model_retry(e) ==
    /\ pc[e] = "model"
    /\ \E m \in ErrMsgs("model_error") : exc' = [exc EXCEPT ![e] = Exception("model_error", m)]
    /\ UNCHANGED <<nextTask, task, events, state, pc, loopVars, confVars>>

call_model_raises(e) ==
    /\ pc[e] = "model"
    /\ Caught(e, "model_error")
    /\ messages' = [messages EXCEPT ![e] = <<>>]
    /\ sent' = [sent EXCEPT ![e] = <<>>]
    /\ UNCHANGED <<nextTask, task, events, state, final_response, results, rounds,
                   toolCalls, confVars>>

\* ToolNode has every call of the turn answered before it returns
Joined_any(rs) == \E i \in DOMAIN rs : rs[i].done

Joined(rs) == \A i \in DOMAIN rs : rs[i].done

\* the tool messages of the answered calls, in the order of the calls
RECURSIVE ToolMessages(_)
ToolMessages(rs) ==
    IF rs = <<>> THEN <<>>
    ELSE (IF Head(rs).done THEN <<ToolMessage(Head(rs).id, Head(rs).text)>> ELSE <<>>)
         \o ToolMessages(Tail(rs))

\* the tools node: one of the calls of the turn is answered; when ToolNode
\* returns, its tool messages are appended and the chunk is consumed.  An
\* exception of a tool function that ToolNode does not turn into a tool
\* message leaves the graph run
tool_node(e) ==
    /\ pc[e] = "tools"
    /\ \E i \in DOMAIN results[e], out \in ToolOutcomes(agent, tavily_api_key) :
         /\ ~results[e][i].done
         /\ IF out.raised
            THEN /\ exc' = [exc EXCEPT ![e] = out.err]
                 /\ pc' = [pc EXCEPT ![e] = "except"]
                 /\ messages' = [messages EXCEPT ![e] = <<>>]
                 /\ results' = [results EXCEPT ![e] = <<>>]
                 /\ sent' = [sent EXCEPT ![e] = <<>>]
                 /\ UNCHANGED final_response
            ELSE LET rs == [results[e] EXCEPT ![i] = [@ EXCEPT !.done = TRUE, !.text = out.text]]
                 IN  IF Joined(rs)
                     THEN LET msgs == messages[e] \o ToolMessages(rs)
                          IN  /\ messages' = [messages EXCEPT ![e] = msgs]
                              /\ final_response' = [final_response EXCEPT ![e] =
                                                       ChunkText(@, msgs)]
                              /\ results' = [results EXCEPT ![e] = <<>>]
                              /\ pc' = [pc EXCEPT ![e] = "model"]
                              /\ UNCHANGED <<exc, sent>>
                     ELSE /\ results' = [results EXCEPT ![e] = rs]
                          /\ UNCHANGED <<messages, final_response, pc, exc, sent>>
    /\ UNCHANGED <<nextTask, task, events, state, rounds, toolCalls, confVars>>

\* ------------------------------------------------- the end of execute()
\* await updater.add_artifact(text = final_response)
add_artifact(e) ==
    /\ pc[e] = "add_artifact"
    /\ Enqueue(e, ArtifactEvent(e, final_response[e]))
    /\ pc' = [pc EXCEPT ![e] = "complete"]
    /\ sent' = [sent EXCEPT ![e] = <<>>]
    /\ messages' = [messages EXCEPT ![e] = <<>>]
    /\ UNCHANGED <<nextTask, task, exc, final_response, results, rounds,
                   toolCalls, confVars>>

add_artifact_raises(e) ==
    /\ pc[e] = "add_artifact"
    /\ Caught(e, "queue_error")
    /\ sent' = [sent EXCEPT ![e] = <<>>]
    /\ messages' = [messages EXCEPT ![e] = <<>>]
    /\ UNCHANGED <<nextTask, task, events, state, final_response, results,
                   rounds, toolCalls, confVars>>

\* await updater.complete(); the search executor returns right after it
complete(e) ==
    /\ pc[e] = "complete"
    /\ Enqueue(e, StatusEvent(e, "completed", <<>>))
    /\ IF LogsAfterComplete(agent)
       THEN pc' = [pc EXCEPT ![e] = "log"] /\ UNCHANGED <<exc, final_response>>
       ELSE Returns_(e)
    /\ UNCHANGED <<nextTask, task, restVars, confVars>>

complete_raises(e) ==
    /\ pc[e] = "complete"
    /\ Caught(e, "queue_error")
    /\ UNCHANGED <<nextTask, task, events, state, loopVars, confVars>>

\* logger.info(..._complete), the last statement of the try block
log_complete(e) ==
    /\ pc[e] = "log"
    /\ Returns_(e)
    /\ UNCHANGED <<nextTask, task, events, state, restVars, confVars>>

log_complete_raises(e) ==
    /\ pc[e] = "log"
    /\ Caught(e, "log_error")
    /\ UNCHANGED <<nextTask, task, events, state, loopVars, confVars>>

\* except Exception as e: await updater.failed(message)
failed(e) ==
    /\ pc[e] = "except"
    /\ Enqueue(e, StatusEvent(e, "failed", FailText(agent, exc[e])))
    /\ Returns_(e)
    /\ UNCHANGED <<nextTask, task, restVars, confVars>>

\* the same call on an updater that has already sent completed: a TaskUpdater
\* that refuses a second terminal status raises instead of enqueuing
failed_refused(e) ==
    /\ pc[e] = "except"
    /\ exc[e].type = "log_error"
    /\ pc' = [pc EXCEPT ![e] = "raised"]
    /\ exc' = [exc EXCEPT ![e] = Exception("updater_error", Lit("updater_error"))]
    /\ final_response' = [final_response EXCEPT ![e] = <<>>]
    /\ UNCHANGED <<nextTask, task, events, state, restVars, confVars>>

\* --------------------------------------------- POST /api/chat, its handler
chatRest == <<agent, tavily_api_key, budget, probe, cancel_exc, nextTask, events, state,
              pc, task, exc, final_response, messages, results, sent, toolVars, web, net>>

\* a request arrives
chat_request ==
    /\ chat.at = "none"
    /\ agent = "orchestrator"
    /\ budget.chat
    /\ \E b \in Bodies : chat' = [NoChat EXCEPT !.at = "json", !.body = b]
    /\ UNCHANGED <<chatRest, rounds, toolCalls>>

\* body = await request.json(); message = body.get("message", "").strip();
\* the 400 answer, or the graph run is started and its first chunk (the
\* input) consumed; an exception of these statements is answered with 500
chat_endpoint ==
    /\ chat.at = "json"
    /\ LET body == chat.body
       IN  IF body.kind = "not_json"
           THEN chat' = JSONResponse(chat, 500, "error", Lit("JSONDecodeError"))
           ELSE IF body.kind = "not_object" \/ body.field \in {"null", "number"}
           THEN chat' = JSONResponse(chat, 500, "error", Lit("AttributeError"))
           ELSE LET message == strip(IF body.field = "absent" THEN <<>> ELSE body.message)
                    session_id == IF body.session_id THEN "given" ELSE "default"
                IN  IF message = <<>>
                    THEN chat' = JSONResponse(chat, 400, "error",
                                              Lit("message field is required"))
                    ELSE chat' = [chat EXCEPT
                                     !.at = "model",
                                     !.session_id = session_id,
                                     !.messages = <<HumanMessage(message)>>,
                                     !.final_response =
                                         ChunkText(<<>>, <<HumanMessage(message)>>)]
    /\ UNCHANGED <<chatRest, rounds, toolCalls>>

\* the model node of the run, its chunk, and at END the answer
\* {"response": final_response or "Yanit olusturulamadi.", "session_id"}
chat_model ==
    /\ chat.at = "model"
    /\ \E c \in ModelContents(0, Turn(chat.messages)), n \in 0..MaxToolCalls :
         LET m == Turn(chat.messages)
             response == AIMessage(c, CallIds(m, n))
             msgs == Append(chat.messages, response)
             fr == ChunkText(chat.final_response, msgs)
         IN  /\ n > 0 => rounds < budget.rounds /\ toolCalls + n <= budget.calls
             /\ toolCalls' = toolCalls + n
             /\ rounds' = rounds + (IF n > 0 THEN 1 ELSE 0)
             /\ IF should_continue(msgs) = "tools"
                THEN chat' = [chat EXCEPT !.at = "tools", !.messages = msgs,
                                          !.final_response = fr,
                                          !.results = [i \in 1..n |->
                                              [id |-> response.tool_calls[i],
                                               done |-> FALSE, text |-> <<>>]]]
                ELSE chat' = JSONResponse(chat, 200, "response",
                                          IF fr # <<>> THEN fr
                                          ELSE Lit("Yanit olusturulamadi."))
    /\ UNCHANGED chatRest

\* llm.ainvoke raises: the except clause answers {"error": str(e)} with 500
chat_model_raises ==
    /\ chat.at = "model"
    /\ \E m \in ErrMsgs("model_error") : chat' = JSONResponse(chat, 500, "error", m)
    /\ UNCHANGED <<chatRest, rounds, toolCalls>>

\* the tools node of the run: one of the calls of the turn is answered
chat_tools ==
    /\ chat.at = "tools"
    /\ \E i \in DOMAIN chat.results, out \in ToolOutcomes(agent, tavily_api_key) :
         /\ ~chat.results[i].done
         /\ IF out.raised
            THEN chat' = JSONResponse(chat, 500, "error", out.err.msg)
            ELSE LET rs == [chat.results EXCEPT
                               ![i] = [@ EXCEPT !.done = TRUE, !.text = out.text]]
                 IN  IF Joined(rs)
                     THEN LET msgs == chat.messages \o ToolMessages(rs)
                          IN  chat' = [chat EXCEPT
                                          !.at = "model", !.messages = msgs,
                                          !.results = <<>>,
                                          !.final_response = ChunkText(@, msgs)]
                     ELSE chat' = [chat EXCEPT !.results = rs]
    /\ UNCHANGED <<chatRest, rounds, toolCalls>>

\* cancel() of the executor, for the task t of its context
cancel_performs(t) ==
    /\ t \in 1..nextTask
    /\ budget.cancel
    /\ state[t] \notin {"completed", "failed", "canceled"}
    /\ state' = [state EXCEPT ![t] = "canceled"]
    /\ cancel_exc' = [cancel_exc EXCEPT ![t] = NoException]
    /\ UNCHANGED <<agent, tavily_api_key, budget, probe, nextTask, events, pc, task, exc,
                   loopVars, chat, toolVars, web, net>>

cancel(t) ==
    /\ t \in 1..nextTask
    /\ budget.cancel
    /\ \E m \in ErrMsgs("UnsupportedOperationError") :
         cancel_exc' = [cancel_exc EXCEPT ![t] = Exception("UnsupportedOperationError", m)]
    /\ UNCHANGED <<agent, tavily_api_key, budget, probe, nextTask, events, state, pc, task,
                   exc, loopVars, chat, toolVars, web, net>>

Next ==
    \/ \E t \in Tasks : cancel(t)
    \/ chat_request
    \/ chat_endpoint
    \/ chat_model
    \/ chat_model_raises
    \/ \E e \in Execs :
        \/ execute_no_message(e)
        \/ execute_new(e)
        \/ execute_existing(e)
        \/ submit(e)
        \/ submit_raises(e)
        \/ start_work(e)
        \/ start_work_raises(e)
        \/ update_status(e)
        \/ update_status_raises(e)
        \/ call_model(e)
        \/ call_model_raises(e)
        \/ tool_node(e)
        \/ add_artifact(e)
        \/ add_artifact_raises(e)
        \/ complete(e)
        \/ complete_raises(e)
        \/ log_complete(e)
        \/ log_complete_raises(e)
        \/ failed(e)
        \/ failed_refused(e)

Spec == Init /\ [][Next]_vars

\* ------------------------------------------- the delegation client by itself
\* _delegate_to_agent called once, outside a loop run, against every answer
\* send_message can give
DelegInit ==
    /\ Init
    /\ agent = "orchestrator"

\* the call is made: client.send_message is awaited
delegate_send ==
    /\ probe.at = "none"
    /\ \E n \in AgentNames, r \in TransportErrors \cup Responses :
         probe' = [NoProbe EXCEPT !.at = "sent", !.name = n, !.r = r]
    /\ UNCHANGED <<agent, tavily_api_key, budget, nextTask, events, state, pc, task, exc,
                   loopVars, cancel_exc, chat, toolVars, web, net>>

\* send_message is over: the call returns or raises
delegate_return ==
    /\ probe.at = "sent"
    /\ probe' = [probe EXCEPT !.at = "returned",
                              !.out = _delegate_to_agent(probe.name, probe.r)]
    /\ UNCHANGED <<agent, tavily_api_key, budget, nextTask, events, state, pc, task, exc,
                   loopVars, cancel_exc, chat, toolVars, web, net>>

DelegNext == delegate_send \/ delegate_return

DelegSpec == DelegInit /\ [][DelegNext]_vars

\* ---------------------------------------------- the chat endpoint by itself
\* POST /api/chat of the orchestrator's server, one request at a time
ChatInit ==
    /\ InitOver({Budget(0, MaxRounds, MaxToolCalls, FALSE, TRUE)}, {MockData})
    /\ agent = "orchestrator"

ChatNext ==
    \/ chat_request
    \/ chat_endpoint
    \/ chat_model
    \/ chat_model_raises
    \/ chat_tools

ChatSpec == ChatInit /\ [][ChatNext]_vars

\* ------------------------------------------------------ the tools by themselves
\* the tools of the MCP server and of the product and order agents, invoked
\* one after the other over one repository
ToolInit ==
    /\ InitOver({Budget(0, 0, 0, FALSE, FALSE)}, Repositories)
    /\ agent \in {"product_agent", "order_agent"}

toolRest == <<agent, tavily_api_key, budget, probe, cancel_exc, chat, nextTask, events,
              state, pc, task, exc, loopVars, web, net>>

\* a tool is invoked with a name and an argument object
tool_invoke ==
    /\ call.at = "none"
    /\ \E via \in Vias :
         \E name \in IF via = "_call_mcp_tool" THEN McpTools(agent) ELSE ToolNames :
         \E args \in Arguments(name),
            backend \in IF via = "_call_mcp_tool" THEN Backends ELSE {"none"} :
             call' = [NoCall EXCEPT !.at = "called", !.via = via, !.backend = backend,
                                    !.name = name, !.args = args]
    /\ UNCHANGED <<repo, succeeded, toolRest>>

\* the invocation is over: it returned or raised
tool_return ==
    /\ call.at = "called"
    /\ LET answer == Respond("POST", "/tool", call.name, call.args, repo)
           result ==
               CASE call.via = "call_tool" ->
                      McpResult("backend", <<>>, call_tool(call.name, call.args, repo))
                 [] call.via = "POST /tool" ->
                      McpResult("backend", <<>>, Return(answer.body))
                 [] call.via = "_direct_tool_call" ->
                      McpResult("fallback", <<>>,
                                DirectToolCall(agent, call.name, call.args, repo))
                 [] call.via = "_call_mcp_tool" ->
                      CallMcpTool(agent, call.name, call.args, call.backend, repo)
       IN  /\ call' = [call EXCEPT
                          !.at = IF result.out.raised THEN "raised" ELSE "returned",
                          !.status = IF call.via = "POST /tool" THEN answer.status ELSE 0,
                          !.result = result]
           /\ repo' = Stored(repo, call.name, call.args, result.out)
           /\ succeeded' =
                  IF call.name = "cancel_order" /\ ~result.out.raised
                     /\ result.out.payload.kind = "success"
                  THEN [i \in DOMAIN succeeded |->
                           IF repo.ORDERS[i].id = call.args.order_id.s
                              /\ succeeded[i] < MaxRepeat
                           THEN succeeded[i] + 1 ELSE succeeded[i]]
                  ELSE succeeded
    /\ UNCHANGED toolRest

\* the caller has the result; the next invocation can begin
tool_done ==
    /\ call.at \in {"returned", "raised"}
    /\ call' = NoCall
    /\ UNCHANGED <<repo, succeeded, toolRest>>

ToolNext == tool_invoke \/ tool_return \/ tool_done

ToolSpec == ToolInit /\ [][ToolNext]_vars

\* ------------------------------------------- the web-search tools by themselves
\* the web-search tools of the product, order and search agents, invoked one
\* after the other, with and without settings.tavily_api_key
WebInit ==
    /\ InitOver({Budget(0, 0, 1, FALSE, FALSE)}, {MockData})
    /\ WebTools(agent) # {}

webRest == <<agent, tavily_api_key, budget, probe, cancel_exc, chat, nextTask, events,
             state, pc, task, exc, loopVars, toolVars, net>>

\* a web-search tool is invoked
web_invoke ==
    /\ web.at = "none"
    /\ \E name \in WebTools(agent), q \in Queries :
         web' = [NoSearch EXCEPT !.at = "called", !.name = name, !.query = q]
    /\ UNCHANGED webRest

\* no key: the tool returns the disabled payload at once
web_disabled ==
    /\ web.at = "called"
    /\ Disabled(tavily_api_key)
    /\ web' = [web EXCEPT !.at = "returned", !.payload = DisabledPayload]
    /\ UNCHANGED webRest

\* TavilyClient(api_key).search(...): the request to the provider is made
web_client_search ==
    /\ web.at = "called"
    /\ ~Disabled(tavily_api_key)
    /\ \E s \in SearchStates :
         web' = [web EXCEPT !.at = "searching", !.provider = s,
                                  !.searches = @ + 1]
    /\ UNCHANGED webRest

\* the search is over: the hits are returned, or the except clause's payload
web_return ==
    /\ web.at = "searching"
    /\ web' = [web EXCEPT !.at = "returned",
                                !.payload = SearchedPayload(web.name, web.provider)]
    /\ UNCHANGED webRest

\* the caller has the result; the next invocation can begin
web_done ==
    /\ web.at = "returned"
    /\ web' = NoSearch
    /\ UNCHANGED webRest

WebNext == web_invoke \/ web_disabled \/ web_client_search \/ web_return \/ web_done

WebSpec == WebInit /\ [][WebNext]_vars

\* ------------------------------------------- the network calls by themselves
\* one network call of a request at a time, to a collaborator that answers
\* or never does
WaitInit ==
    /\ InitOver({Budget(0, 0, 1, FALSE, FALSE)}, {MockData})

netRest == <<agent, tavily_api_key, budget, probe, cancel_exc, chat, nextTask, events,
             state, pc, task, exc, loopVars, toolVars, web>>

\* the call is made and awaited
net_call ==
    /\ net.at = "none"
    /\ \E c \in NetworkCalls(agent, tavily_api_key), answers \in BOOLEAN :
         net' = [NoNet EXCEPT !.at = "waiting", !.kind = c.kind, !.name = c.name,
                              !.answers = answers]
    /\ UNCHANGED netRest

\* the collaborator answers
net_answer ==
    /\ net.at = "waiting"
    /\ net.answers
    /\ net' = [net EXCEPT !.at = "done", !.how = "answered",
                          !.out = Answered(agent, [kind |-> net.kind, name |-> net.name])]
    /\ UNCHANGED netRest

\* the timeout of the call expires
net_expire ==
    /\ net.at = "waiting"
    /\ Timeout(net.kind).set
    /\ net' = [net EXCEPT !.at = "done", !.how = "expired",
                          !.out = Expired(agent, [kind |-> net.kind, name |-> net.name])]
    /\ UNCHANGED netRest

\* the caller goes on with what it has
net_done ==
    /\ net.at = "done"
    /\ net' = NoNet
    /\ UNCHANGED netRest

WaitNext == net_call \/ net_answer \/ net_expire \/ net_done

\* an enabled answer, expiry or continuation happens; nothing else is
\* assumed of a collaborator
WaitSpec ==
    /\ WaitInit
    /\ [][WaitNext]_vars
    /\ WF_vars(net_answer)
    /\ WF_vars(net_expire)
    /\ WF_vars(net_done)

\* --------------------------------------------- concurrent executions of a loop
\* MaxExec execute() calls of the order agent's executor, which share
\* self.agent, each running its own graph run with tool rounds; the steps
\* that can raise outside the graph run are left to Spec
ConcInit ==
    /\ InitOver({Budget(MaxExec, MaxExec, MaxExec, FALSE, FALSE)}, {MockData})
    /\ agent = "order_agent"

ConcNext ==
    \E e \in Execs :
        \/ execute_new(e)
        \/ execute_existing(e)
        \/ submit(e)
        \/ start_work(e)
        \/ update_status(e)
        \/ call_model(e)
        \/ call_model_raises(e)
        \/ tool_node(e)
        \/ add_artifact(e)
        \/ complete(e)
        \/ log_complete(e)
        \/ failed(e)

ConcSpec == ConcInit /\ [][ConcNext]_vars

\* ------------------------------------------------------------ task lifecycle
Terminal == {"completed", "failed"}

\* the place of a state in submitted -> working -> (completed | failed)
Rank(s) ==
    CASE s = None        -> 0
      [] s = "submitted" -> 1
      [] s = "working"   -> 2
      [] s \in Terminal  -> 3

\* the terminal statuses execution e has enqueued
TerminalIdx(e) ==
    {i \in DOMAIN events[e] : events[e][i].type = "status" /\ events[e][i].state \in Terminal}

\* execute() of execution e is over
Ended(e) == pc[e] \in {"returned", "raised"}

\* C1: for every task, over all execute calls (a later message that carries
\* an existing task included), the states emitted form a prefix of
\* submitted -> working -> (completed | failed): the state of a task never
\* moves back, and never moves once it is terminal.
C1_StatePrefix ==
    [][\A t \in Tasks : state'[t] # state[t] => Rank(state[t]) < Rank(state'[t])]_vars

\* a task that an execution took to a terminal status is back in submitted
C1_Resubmitted ==
    \E e \in Execs :
        /\ task[e] # 0
        /\ TerminalIdx(e) # {}
        /\ state[task[e]] = "submitted"

\* C2: completed and failed are mutually exclusive: an execution has
\* enqueued at most one terminal status for its task, whichever statement of
\* the try block raised.
C2_OneTerminal == \A e \in Execs : Cardinality(TerminalIdx(e)) <= 1

\* an execution has enqueued completed and, after it, failed
C2_CompletedThenFailed ==
    \E e \in Execs : \E i, j \in TerminalIdx(e) :
        i < j /\ events[e][i].state = "completed" /\ events[e][j].state = "failed"

ToolTurnsAfter(msgs, i) ==
    {j \in DOMAIN msgs : j > i /\ \A k \in (i + 1)..j : msgs[k].role = "tool"}

\* C4: when a model request is about to be issued, every assistant turn of
\* the history is directly followed by as many tool-result turns as it
\* requested invocations, one for each invocation identifier, and no
\* invocation of the turn is unresolved, in whatever order they resolved.
C4_OneResultPerCall ==
    \A e \in Execs :
        pc[e] = "model" =>
            /\ results[e] = <<>>
            /\ \A i \in DOMAIN messages[e] :
                 messages[e][i].role = "assistant" =>
                    LET calls == messages[e][i].tool_calls
                        after == ToolTurnsAfter(messages[e], i)
                    IN  /\ Cardinality(after) = Len(calls)
                        /\ \A c \in DOMAIN calls :
                             Cardinality({j \in after :
                                 messages[e][j].tool_call_id = calls[c]}) = 1

\* a turn of two invocations with different results is joined and the next
\* model request is due
C4_TwoResultsJoined ==
    \E e \in Execs :
        /\ pc[e] = "model"
        /\ Len(messages[e]) = 4
        /\ Len(messages[e][2].tool_calls) = 2
        /\ messages[e][3].content # messages[e][4].content

\* C5: the loop ends exactly when a model step requests no invocation: a
\* model step goes to the tool step if and only if it requested one, to the
\* end of the loop only if it requested none, the tool step goes back to the
\* model step, and once the loop is over no model or tool step follows.
C5_EndsIffNoCalls ==
    [][\A e \in Execs :
          /\ (pc[e] = "model" /\ pc'[e] # "model") =>
                /\ pc'[e] \in {"tools", "add_artifact", "except"}
                /\ (pc'[e] = "tools") <=> (toolCalls' > toolCalls)
          /\ (pc[e] = "tools" /\ pc'[e] # "tools") => pc'[e] \in {"model", "except"}
          /\ pc[e] \notin {"update_status", "model", "tools"} =>
                pc'[e] \notin {"model", "tools"}]_vars

\* an execution ran a tool round, went back to the model and left the loop
C5_LoopedThenEnded ==
    \E e \in Execs :
        /\ pc[e] = "add_artifact"
        /\ toolCalls > 0

\* C6: a failed model call aborts the loop without a retry: the exception is
\* in the except clause at once, and the next thing the execution does is
\* enqueue failed with a non-empty message and return; it has not enqueued
\* completed.
C6_ModelFailureFails ==
    [][\A e \in Execs :
          /\ exc'[e].type = "model_error" => pc'[e] = "except"
          /\ (exc[e].type = "model_error" /\ pc'[e] # pc[e]) =>
                /\ pc'[e] = "returned"
                /\ LET ev == events'[e][Len(events'[e])]
                   IN  ev.type = "status" /\ ev.state = "failed" /\ ev.text # <<>>
                /\ \A i \in DOMAIN events'[e] : events'[e][i].state # "completed"]_vars

\* a model call that failed with an empty str(e) ended the task in failed
C6_FailedOnModelError ==
    \E e \in Execs :
        /\ pc[e] = "returned"
        /\ events[e][Len(events[e])] =
              StatusEvent(e, "failed", FailText(agent, Exception("model_error", <<>>)))

\* C7: a failure inside a tool never aborts the loop: every tool of the
\* agent, in every state of the tool backend and of the search provider,
\* returns a text and does not raise, and only the executor's own statements
\* and the model call bring an execution into the except clause.
C7_ToolFailureIsText ==
    /\ \A out \in ToolOutcomes(agent, tavily_api_key) : ~out.raised
    /\ \A e \in Execs :
         exc[e].type \in {None, "InvalidParamsError", "queue_error", "model_error",
                         "log_error", "updater_error"}

\* the backend failed, the fallback answered and the next model request is due
C7_FallbackAnswered ==
    \E e \in Execs :
        /\ pc[e] = "model"
        /\ \E i \in DOMAIN messages[e] :
             /\ messages[e][i].role = "tool"
             /\ Contains(messages[e][i].content.text, "local result")

\* the text of the artifacts execution e has enqueued
RECURSIVE ArtifactText(_)
ArtifactText(evs) ==
    IF evs = <<>> THEN <<>>
    ELSE (IF Head(evs).type = "artifact" THEN Head(evs).text ELSE <<>>)
         \o ArtifactText(Tail(evs))

\* what a caller reads from the events of execution e: the artifacts when
\* there is one, else the message of the last status
CallerText(e) ==
    IF \E i \in DOMAIN events[e] : events[e][i].type = "artifact"
    THEN ArtifactText(events[e])
    ELSE events[e][Len(events[e])].text

\* C8: every terminal task yields a non-empty text: completed comes after an
\* artifact with a non-empty text, failed carries a non-empty message, and
\* the caller that reads artifacts first, else the status message, obtains a
\* non-empty string.
C8_TerminalHasText ==
    \A e \in Execs :
        \A i \in TerminalIdx(e) :
            /\ events[e][i].state = "completed" =>
                  \E j \in 1..(i - 1) :
                      events[e][j].type = "artifact" /\ events[e][j].text # <<>>
            /\ events[e][i].state = "failed" => events[e][i].text # <<>>
            /\ CallerText(e) # <<>>

\* the loop produced no text and the task completed with the apology
C8_ApologyDelivered ==
    \E e \in Execs :
        /\ pc[e] = "returned"
        /\ \E i \in DOMAIN events[e] :
             events[e][i] = ArtifactEvent(e, ApologyText(agent))
        /\ events[e][Len(events[e])].state = "completed"

\* ---------------------------------------------------------------- delegation
\* the characters of t that come from str(e) of an exception of type ty
RECURSIVE ReasonLen(_, _)
ReasonLen(t, ty) ==
    IF t = <<>> THEN 0
    ELSE (IF Head(t).txt = <<ty>> THEN Head(t).len ELSE 0) + ReasonLen(Tail(t), ty)

\* C9: _delegate_to_agent never raises: whatever send_message does, it
\* returns after one attempt a non-empty string, and after a transport
\* failure a string that has the agent's name and at most ErrCut characters
\* of the error.
C9_DelegateNeverRaises ==
    probe.at = "returned" =>
        /\ ~probe.out.raised
        /\ probe.out.attempts = 1
        /\ probe.out.text # <<>>
        /\ probe.r.kind = "raise" =>
              /\ Contains(probe.out.text, probe.name)
              /\ ReasonLen(probe.out.text, probe.r.err.type) <= ErrCut

\* a transport failure whose str(e) is longer than ErrCut came back cut
C9_LongErrorCut ==
    /\ probe.at = "returned"
    /\ probe.r.kind = "raise"
    /\ TextLen(probe.r.err.msg) > ErrCut
    /\ ReasonLen(probe.out.text, probe.r.err.type) = ErrCut

\* C10: a delegation failure is a normal tool result of the orchestrator's
\* loop: the tool step of the orchestrator only goes on to the model step,
\* never into the except clause, and no failed status of the orchestrator
\* carries the error of a delegation.
C10_DelegationFailureIsResult ==
    [][agent = "orchestrator" =>
          \A e \in Execs :
              /\ pc[e] = "tools" => pc'[e] \in {"tools", "model"} /\ exc'[e] = NoException
              /\ \A i \in DOMAIN events'[e] :
                   events'[e][i].state = "failed" =>
                       ~Contains(events'[e][i].text, "ConnectError")]_vars

\* a downstream agent was unreachable and the orchestrator's next model
\* request is due, with the apology as the tool result
C10_ApologyToModel ==
    /\ agent = "orchestrator"
    /\ \E e \in Execs :
         /\ pc[e] = "model"
         /\ \E i \in DOMAIN messages[e] :
              /\ messages[e][i].role = "tool"
              /\ Contains(messages[e][i].content.text, " su anda ulasilamiyor (")

\* C11: the text _delegate_to_agent returns for a result is taken from the
\* artifacts when they give a text, and from the status message when they
\* give none (no artifact, or artifacts without a text part).
C11_ArtifactsThenStatus ==
    (probe.at = "returned" /\ probe.r.kind = "response" /\ probe.r.hasResult) =>
        IF ArtifactsText(probe.r.artifacts) # <<>>
        THEN probe.out.text = ArtifactsText(probe.r.artifacts)
        ELSE (probe.r.status.message /\ PartsText(probe.r.status.parts) # <<>>) =>
                 probe.out.text = PartsText(probe.r.status.parts)

\* a failed task without artifact came back as its status message
C11_StatusFallback ==
    /\ probe.at = "returned"
    /\ probe.r.hasResult
    /\ probe.r.artifacts = <<>>
    /\ probe.r.status.message
    /\ probe.out.text = DownstreamText("failed")

\* ------------------------------------------------------------------- cancel
\* C12: cancel is never performed: no task is ever in the canceled state,
\* and a cancel call only raises UnsupportedOperationError: it enqueues no
\* event, changes no task's state and moves no execution.
C12_CancelUnsupported ==
    [][/\ \A t \in Tasks : state'[t] # "canceled"
       /\ cancel_exc' # cancel_exc =>
            /\ events' = events
            /\ state' = state
            /\ pc' = pc
            /\ \A t \in Tasks :
                 cancel_exc'[t] # cancel_exc[t] =>
                     cancel_exc'[t].type = "UnsupportedOperationError"]_vars

\* cancel was called for a task whose execution is in the tool step, and the
\* execution is still there
C12_CancelledInFlight ==
    \E e \in Execs :
        /\ pc[e] = "tools"
        /\ cancel_exc[task[e]].type = "UnsupportedOperationError"
        /\ state[task[e]] = "working"

\* ---------------------------------------------------------- invalid request
\* C13: execute() of a context without a message raises InvalidParamsError
\* straight from its first statement: no task is created and no event is
\* enqueued by that call; and POST /api/chat whose message is missing, empty
\* or only whitespace is answered with an error without a model call.
C13_InvalidSignalledAtOnce ==
    [][/\ \A e \in Execs :
            (exc'[e].type = "InvalidParamsError" /\ exc[e].type # "InvalidParamsError") =>
                /\ pc[e] = "idle" /\ pc'[e] = "raised"
                /\ task'[e] = 0
                /\ events'[e] = <<>>
                /\ nextTask' = nextTask /\ events' = events /\ state' = state
       /\ (chat.at = "json" /\ chat.body.kind = "object"
             /\ (chat.body.field = "absent" \/
                   (chat.body.field = "str" /\ \A i \in DOMAIN chat.body.message :
                                                   IsSpace(chat.body.message[i])))) =>
                (chat'.at \in {"json", "answered"} /\
                 (chat'.at = "answered" =>
                     chat'.status = 400 /\ chat'.key = "error" /\ chat'.text # <<>>))
       /\ chat'.at \in {"model", "tools"} =>
             (chat.body.field = "str" /\ strip(chat.body.message) # <<>>)]_vars

\* a context without a message was refused, and so was a chat request whose
\* message is only whitespace
C13_BlankRejected ==
    /\ \E e \in Execs : pc[e] = "raised" /\ exc[e].type = "InvalidParamsError"
    /\ chat.at = "answered"
    /\ chat.status = 400
    /\ chat.body.field = "str"
    /\ chat.body.message # <<>>

\* --------------------------------------------------------------------- tools
\* two results are the same outcome: both raise the same exception, or both
\* return the same kind of payload with the same entities, status and error
SameOutcome(x, y) ==
    /\ x.raised = y.raised
    /\ x.exc = y.exc
    /\ x.payload.kind = y.payload.kind
    /\ x.payload.ids = y.payload.ids
    /\ x.payload.status = y.payload.status
    /\ x.payload.error = y.payload.error

\* the local fallback of the agent was invoked with one of the agent's tools
FallbackReturned ==
    /\ call.at \in {"returned", "raised"}
    /\ call.via = "_direct_tool_call"
    /\ call.name \in McpTools(agent)

\* C14: for every tool of an agent and every argument object, the agent's
\* local fallback gives the outcome the dispatcher of the MCP server gives
\* over the same repository.
C14_FallbackEquivalent ==
    FallbackReturned =>
        SameOutcome(call.result.out, _dispatch_tool(call.name, call.args, repo))

\* the fallback answered get_order_status for an existing order as the
\* dispatcher does
C14_OrderStatusAgrees ==
    /\ FallbackReturned
    /\ call.name = "get_order_status"
    /\ call.result.out.payload.kind = "order"
    /\ SameOutcome(call.result.out, _dispatch_tool(call.name, call.args, repo))

\* C15: when the request of _call_mcp_tool to the tool backend fails (no
\* connection, timeout, error status) the call gives what the agent's local
\* fallback gives for the same tool name and arguments; when it succeeds the
\* call gives the response text as it is and the fallback does not run.
C15_FallbackOnFailure ==
    (call.at \in {"returned", "raised"} /\ call.via = "_call_mcp_tool") =>
        IF call.backend \in {"unreachable", "timeout", "http_error"}
        THEN /\ call.result.via = "fallback"
             /\ call.result.out = DirectToolCall(agent, call.name, call.args, repo)
        ELSE /\ call.result.via = "backend"
             /\ call.result.text = ResponseText(call.backend)
             /\ call.result.out = Return(NoPayload)

\* the backend timed out and the order agent's fallback gave the order
C15_FallbackGaveOrder ==
    /\ call.at = "returned"
    /\ call.via = "_call_mcp_tool"
    /\ call.backend = "timeout"
    /\ call.result.via = "fallback"
    /\ call.result.out.payload.kind = "order"

\* C16: the HTTP application of the MCP server answers a POST /tool that
\* names a registered tool with status 200 and the result of that tool.
C16_ToolEndpointServed ==
    (call.at = "returned" /\ call.via = "POST /tool" /\ call.name # "no_such_tool") =>
        /\ call.status = 200
        /\ call.result.out = call_tool(call.name, call.args, repo)

\* a POST /tool for search_products was answered: no route, 404
C16_NoToolRoute ==
    /\ call.at = "returned"
    /\ call.via = "POST /tool"
    /\ call.name = "search_products"
    /\ call.status = 404

\* the invocation names a product, an order or a customer (by id or email)
\* that the repository does not hold
NamesMissing(name, args, db) ==
    \/ /\ name \in {"get_product_details", "check_product_availability"}
       /\ args.product_id.t = "str"
       /\ get_product_by_id(db, args.product_id) = <<>>
    \/ /\ name \in {"get_order_status", "cancel_order"}
       /\ args.order_id.t = "str"
       /\ get_order_by_id(db, args.order_id) = <<>>
    \/ /\ name \in {"get_customer_orders", "get_customer_profile"}
       /\ \/ /\ args.email.t = "str" /\ args.email.s # ""
             /\ get_customer_by_email(db, args.email.s) = <<>>
          \/ /\ args.email.t = "absent"
             /\ args.customer_id.t = "str" /\ args.customer_id.s # ""
             /\ get_customer_by_id(db, args.customer_id) = <<>>

\* a tool was invoked on the dispatcher, or on a fallback that has the tool
ToolReturned ==
    /\ call.at \in {"returned", "raised"}
    /\ \/ call.via = "call_tool"
       \/ call.via = "_direct_tool_call" /\ call.name \in McpTools(agent)

\* C17: an invocation that names an entity the repository does not hold is
\* answered with a not-found error and no data, on the dispatcher and on the
\* fallbacks.
C17_MissingIsNotFound ==
    (ToolReturned /\ NamesMissing(call.name, call.args, repo)) =>
        /\ ~call.result.out.raised
        /\ call.result.out.payload.kind = "error"
        /\ call.result.out.payload.error = "not_found"
        /\ call.result.out.payload.ids = <<>>

\* get_customer_orders for an email of no customer, answered by the
\* dispatcher with an empty list
C17_EmptyOrderList ==
    /\ call.at = "returned"
    /\ call.via = "call_tool"
    /\ repo = MockData
    /\ call.name = "get_customer_orders"
    /\ call.args.email = S("nobody@example.com")
    /\ call.result.out.payload.kind = "orders"
    /\ call.result.out.payload.ids = <<>>

\* the step in which a cancel_order of an order the repository holds, on the
\* dispatcher or on the order agent's fallback, returns
CancelReturns ==
    /\ call.at = "called"
    /\ call'.at = "returned"
    /\ call.name = "cancel_order"
    /\ \/ call.via = "call_tool"
       \/ call.via = "_direct_tool_call" /\ agent = "order_agent"
    /\ get_order_by_id(repo, call.args.order_id) # <<>>

\* C18: cancel_order of an order that is neither pending nor confirmed is
\* answered, every time, with an error payload that has cancellable false
\* and the order's status, and the stored orders stay as they are; success is
\* answered only for a pending or confirmed order.
C18_IneligibleNotCancelled ==
    [][CancelReturns =>
          LET order == get_order_by_id(repo, call.args.order_id)[1]
              payload == call'.result.out.payload
          IN  /\ order.status \notin {"pending", "confirmed"} =>
                    /\ payload.kind = "error"
                    /\ payload.cancellable = "false"
                    /\ payload.status = order.status
                    /\ repo'.ORDERS = repo.ORDERS
              /\ payload.kind = "success" =>
                    order.status \in {"pending", "confirmed"}]_vars

\* the shipped order ord-001 of the module data was refused
C18_ShippedRefused ==
    /\ call.at = "returned"
    /\ repo = MockData
    /\ call.name = "cancel_order"
    /\ call.args.order_id = S("ord-001")
    /\ call.result.out.payload.cancellable = "false"
    /\ call.result.out.payload.status = "shipped"

\* C19: no tool invocation writes to the repository: in every step the
\* products, customers and orders stay as they are; so a cancel_order of an
\* order that a cancel_order has already answered with success succeeds again.
C19_RepositoryUnchanged ==
    [][/\ repo' = repo
       /\ (CancelReturns /\
           \E i \in DOMAIN repo.ORDERS :
               repo.ORDERS[i].id = call.args.order_id.s /\ succeeded[i] > 0) =>
              call'.result.out.payload.kind = "success"]_vars

\* the confirmed order ord-004 of the module data was cancelled with success
\* twice and is still confirmed
C19_CancelledTwice ==
    /\ call.at = "returned"
    /\ call.name = "cancel_order"
    /\ call.args.order_id = S("ord-004")
    /\ call.result.out.payload.kind = "success"
    /\ succeeded[4] = 2
    /\ repo.ORDERS[4].status = "confirmed"

\* C20: a tool invoked on the dispatcher of the MCP server or on the local
\* fallback of an agent never raises, whatever the tool name and the
\* argument object: a failure is a returned error payload.
C20_ToolsNeverRaise ==
    call.via \in {"call_tool", "_direct_tool_call"} => call.at # "raised"

\* call_tool was invoked without the required order_id and returned the
\* KeyError as an error payload
C20_DispatcherCaught ==
    /\ call.at = "returned"
    /\ call.via = "call_tool"
    /\ call.name = "get_order_status"
    /\ call.args = NoArgs
    /\ call.result.out.payload.kind = "error"
    /\ call.result.out.payload.error = "KeyError"

\* ------------------------------------------------------------ chat endpoint
\* the request being handled passed the check of its message
Accepted ==
    /\ chat.body.kind = "object"
    /\ chat.body.field = "str"
    /\ strip(chat.body.message) # <<>>

\* C21: every accepted POST /api/chat performs one orchestrator task
\* lifecycle: when it is answered, one task has been created for it, its
\* events run submitted, working and a terminal state, and the answer holds
\* the resulting text and the caller's session_id or the default one.
C21_ChatRunsTaskLifecycle ==
    (chat.at = "answered" /\ Accepted) =>
        /\ nextTask >= 1
        /\ \E t \in Tasks : state[t] \in {"completed", "failed"}
        /\ \E e \in Execs : events[e] # <<>> /\ Head(events[e]).type = "task"
        /\ chat.session_id = (IF chat.body.session_id THEN "given" ELSE "default")

\* an accepted request was answered with the model's text and the caller's
\* session_id, and no task exists
C21_AnsweredWithoutTask ==
    /\ chat.at = "answered"
    /\ Accepted
    /\ chat.status = 200
    /\ chat.text = AnswerText(0, 1)
    /\ chat.body.session_id /\ chat.session_id = "given"
    /\ nextTask = 0

\* C22: a request to the chat endpoint with a non-empty message is answered
\* with status 200 and a "response" field holding a non-empty text, whatever
\* happens in the orchestrator loop.
C22_ChatAlwaysResponds ==
    (chat.at = "answered" /\ Accepted) =>
        /\ chat.status = 200
        /\ chat.key = "response"
        /\ chat.text # <<>>

\* the model ended a run of two turns without any text and the request was
\* answered 200 with the fixed text
C22_EmptyRunAnswered ==
    /\ chat.at = "answered"
    /\ Accepted
    /\ chat.status = 200
    /\ chat.key = "response"
    /\ chat.text = Lit("Yanit olusturulamadi.")
    /\ rounds >= 1

\* ---------------------------------------------------------- search_products
\* the product of the repository with an id
ProductOf(db, id) == CHOOSE p \in {db.PRODUCTS[i] : i \in DOMAIN db.PRODUCTS} : p.id = id

\* the query occurs in the product's name, description, a tag or the brand
QueryIn(q, p) == lower(q) = "" \/ lower(q) \in p.words

\* the product passes every filter the argument object sets
PassesFilters(p, args) ==
    /\ truthy(args.category) => (args.category.t = "str" /\ p.category = args.category.s)
    /\ truthy(args.max_price) => p.price <= args.max_price.n
    /\ truthy(args.min_rating) => p.rating >= args.min_rating.n
    /\ truthy(args.in_stock_only) => p.in_stock

\* search_products returned a product list, from the dispatcher or from the
\* product agent's fallback
SearchReturned ==
    /\ call.at = "returned"
    /\ call.name = "search_products"
    /\ call.args.query.t = "str"
    /\ call.result.out.payload.kind = "products"

\* C23: search_products with a query that occurs in no product gives an
\* empty list with total 0 under every combination of filters, from the
\* backend and from the fallback; for every query the total is the length
\* of the list and every product of the list matches the query and every
\* filter of the call.
C23_SearchMatches ==
    SearchReturned =>
        LET out == call.result.out.payload
        IN  /\ out.total = Len(out.ids)
            /\ (\A i \in DOMAIN repo.PRODUCTS : ~QueryIn(call.args.query.s, repo.PRODUCTS[i]))
                  => (out.ids = <<>> /\ out.total = 0)
            /\ \A i \in DOMAIN out.ids :
                  /\ QueryIn(call.args.query.s, ProductOf(repo, out.ids[i]))
                  /\ PassesFilters(ProductOf(repo, out.ids[i]), call.args)

\* a query that occurs in no product, with filters set, came back from the
\* fallback as the empty list
C23_NoMatchIsEmpty ==
    /\ SearchReturned
    /\ call.via = "_direct_tool_call"
    /\ call.args.query.s = "zzz"
    /\ truthy(call.args.min_rating) /\ truthy(call.args.category)
    /\ call.result.out.payload.ids = <<>>
    /\ call.result.out.payload.total = 0

\* ------------------------------------------------------------------ web search
\* C24: without a search key every web-search tool of every agent returns
\* the disabled payload (a message and an empty result list), makes no
\* request to the search provider and does not raise; the loop gets it as
\* an ordinary tool result.
C24_DisabledWithoutKey ==
    /\ (~tavily_api_key /\ web.at # "none") =>
          /\ web.searches = 0
          /\ web.at # "searching"
          /\ ~web.raised
          /\ web.at = "returned" =>
                /\ web.payload = DisabledPayload
                /\ "results" \in web.payload.keys /\ web.payload.items = <<>>
                /\ "error" \notin web.payload.keys
    /\ \A n \in WebTools(agent), s \in SearchStates :
          /\ ~web_search(n, FALSE, s).raised
          /\ Contains(web_search(n, FALSE, s).text, "results: []")

\* get_trending_products of the search agent returned the disabled payload
C24_TrendingDisabled ==
    /\ agent = "search_agent"
    /\ ~tavily_api_key
    /\ web.at = "returned"
    /\ web.name = "get_trending_products"
    /\ web.payload = DisabledPayload

\* --------------------------------------------------------------- timeouts
\* C25: every network call on the path of a request (model, web search,
\* tool backend, delegation) has a bounded timeout, and a call that is
\* awaited always ends: by the answer, or by the expiry, which gives the
\* caller a result and no exception.
C25_NoCallWaitsForever ==
    /\ [](net.at = "waiting" => Timeout(net.kind).set)
    /\ [](net.at = "done" /\ net.how = "expired" => ~net.out.raised)
    /\ (net.at = "waiting") ~> (net.at = "done")

\* a delegation to an agent that never answers expired, and the caller has
\* the fallback string
C25_DelegationExpired ==
    /\ net.at = "done"
    /\ net.kind = "delegation"
    /\ ~net.answers
    /\ net.how = "expired"
    /\ ~net.out.raised
    /\ Contains(net.out.text, " su anda ulasilamiyor (")

\* ------------------------------------------------------- conversation history
\* the texts the model writes in the run of execution e
AnswerTexts(e) == { AnswerText(e, m) : m \in 1..(MaxRounds + 1) }

\* the i-th message of a history is one of execution e's own run: the
\* system prompt, e's user message, an answer of e's model calls, or the
\* result of an invocation requested by an earlier answer of the history
OwnedBy(e, msgs, i) ==
    LET msg == msgs[i]
    IN  CASE msg.role = "system" -> msg = SystemMessage(agent)
          [] msg.role = "user" -> msg = HumanMessage(get_user_input(e))
          [] msg.role = "assistant" ->
                IF msg.content.shape = "str"
                THEN msg.content.text \in AnswerTexts(e) \cup {<<>>}
                ELSE \A b \in DOMAIN msg.content.blocks :
                        msg.content.blocks[b].type = "text" =>
                            msg.content.blocks[b].text \in AnswerTexts(e)
          [] msg.role = "tool" ->
                \E j \in 1..(i - 1) :
                    /\ msgs[j].role = "assistant"
                    /\ \E k \in DOMAIN msgs[j].tool_calls :
                           msgs[j].tool_calls[k] = msg.tool_call_id

\* the loop state of the executions other than e is left as it is
OthersUntouched(e) ==
    \A f \in Execs \ {e} :
        /\ messages'[f] = messages[f]
        /\ sent'[f] = sent[f]
        /\ results'[f] = results[f]
        /\ final_response'[f] = final_response[f]

\* C26: a conversation history belongs to one loop execution: whatever the
\* interleaving of the executions of one executor, the history sent to the
\* model for a task holds only that task's own messages, invocations and
\* results, a step of one run leaves the histories of the others as they
\* are, and the final text of a task is a text of its own run.
C26_HistoryOwned ==
    /\ [](\A e \in Execs :
            /\ \A i \in DOMAIN sent[e] : OwnedBy(e, sent[e], i)
            /\ \A i \in DOMAIN messages[e] : OwnedBy(e, messages[e], i)
            /\ final_response[e] \in AnswerTexts(e) \cup {<<>>, ApologyText(agent)})
    /\ [][\A e \in Execs :
            (messages'[e] # messages[e] \/ sent'[e] # sent[e] \/ results'[e] # results[e])
                => OthersUntouched(e)]_vars

\* two executions are in flight, each after a model call of its own, with
\* a tool result of its own in its history
C26_TwoRunsInFlight ==
    /\ pc[1] = "model" /\ pc[2] = "model"
    /\ \E i \in DOMAIN messages[1] : messages[1][i].role = "tool"
    /\ \E i \in DOMAIN messages[2] : messages[2][i].role = "tool"
    /\ sent[1] # <<>> /\ sent[2] # <<>>
    /\ task[1] # task[2]

\* s is the beginning of t
IsPrefix(s, t) == Len(s) <= Len(t) /\ SubSeq(t, 1, Len(s)) = s

\* C27: the history of a model step begins with the system prompt, once,
\* followed by the user message of the request and the turns appended since,
\* in their order; at the first model step it is exactly the system prompt
\* and the user message, for a new task and for a message of an existing
\* task alike.
C27_HistoryFromStart ==
    \A e \in Execs :
        sent[e] # <<>> =>
            /\ sent[e][1] = SystemMessage(agent)
            /\ \A i \in 2..Len(sent[e]) : sent[e][i].role # "system"
            /\ Len(sent[e]) >= 2
            /\ sent[e][2] = HumanMessage(get_user_input(e))
            /\ (\A i \in DOMAIN sent[e] : sent[e][i].role # "assistant") => Len(sent[e]) = 2
            /\ pc[e] \in {"model", "tools"} => IsPrefix(Tail(sent[e]), messages[e])
            /\ pc[e] = "tools" => Len(messages[e]) = Len(sent[e])

\* the first model step of an execution for a message of an existing task
C27_ExistingTaskFirstStep ==
    /\ task[2] = task[1]
    /\ pc[2] = "add_artifact"
    /\ sent[2] = <<SystemMessage(agent), HumanMessage(get_user_input(2))>>

\* --------------------------------------------------------------------- events
\* the events of the success path of execute() for a new task, with the
\* artifact text t
SuccessEvents(e, t) ==
    << TaskEvent(e, task[e]),
       StatusEvent(e, "submitted", <<>>),
       StatusEvent(e, "working", <<>>),
       StatusEvent(e, "working", ProgressText(agent)),
       ArtifactEvent(e, t),
       StatusEvent(e, "completed", <<>>) >>

\* C28: the events of execute() come in a fixed order.  For a message
\* without a task, a call that completes has emitted exactly: the new task,
\* submitted, working, the working progress message, one artifact,
\* completed; the loop runs only after the working events; and the artifact
\* comes right before completed, for the same task.
C28_EventsInOrder ==
    \A e \in Execs :
        LET evs == events[e]
            n == Len(evs)
        IN  /\ (n > 0 /\ evs[1].type = "task" /\ evs[n].state = "completed") =>
                  \E t \in AnswerTexts(e) \cup {ApologyText(agent)} : evs = SuccessEvents(e, t)
            /\ \A i \in 2..n : evs[i].type # "task"
            /\ (pc[e] \in {"model", "tools"} \/ sent[e] # <<>>) =>
                  /\ evs[n] = StatusEvent(e, "working", ProgressText(agent))
                  /\ n >= 3
                  /\ evs[n - 1] = StatusEvent(e, "working", <<>>)
                  /\ evs[n - 2] = StatusEvent(e, "submitted", <<>>)
            /\ \A i \in 1..n :
                  evs[i].state = "completed" =>
                      /\ i > 1
                      /\ evs[i - 1].type = "artifact"
                      /\ evs[i - 1].task = evs[i].task
                      /\ Cardinality({j \in 1..n : evs[j].type = "artifact"}) = 1

\* an execution for a new task completed after a tool round
C28_CompletedAfterTools ==
    \E e \in Execs :
        /\ pc[e] = "returned"
        /\ rounds >= 1
        /\ Len(events[e]) = 6
        /\ events[e][1].type = "task"
        /\ events[e][6].state = "completed"

\* ------------------------------------------------------------------ artifact
\* task t has an artifact: some execution enqueued an artifact event for it
HasArtifact(t) ==
    \E e \in Execs : \E i \in 1..Len(events[e]) :
        events[e][i].type = "artifact" /\ events[e][i].task = t

\* C29: an artifact is attached only to a task that completes: a task whose
\* status is failed has no artifact, also when a step after the artifact
\* attachment raises.
C29_ArtifactOnlyOnCompleted ==
    \A t \in Tasks : state[t] = "failed" => ~HasArtifact(t)

\* complete() raised after add_artifact: the only terminal status of the
\* task is failed, and the artifact is attached
C29_FailedWithArtifact ==
    \E e \in Execs :
        /\ pc[e] = "returned"
        /\ state[task[e]] = "failed"
        /\ \A i \in 1..Len(events[e]) : events[e][i].state # "completed"
        /\ \E i \in 1..Len(events[e]) : events[e][i].type = "artifact"

\* -------------------------------------------------------------- answer text
\* the text of a turn: its string, or the joined text blocks of its list
TurnText(msg) ==
    IF msg.content.shape = "list" THEN JoinText(msg.content.blocks)
                                  ELSE msg.content.text

\* the assistant turns of a history that have text
TextTurns(msgs) ==
    {i \in DOMAIN msgs : msgs[i].role = "assistant" /\ TurnText(msgs[i]) # <<>>}

\* the text of the latest assistant turn that has text, else the apology
LatestAnswer(a, msgs) ==
    IF TextTurns(msgs) = {} THEN ApologyText(a)
    ELSE TurnText(msgs[CHOOSE i \in TextTurns(msgs) :
                           \A j \in TextTurns(msgs) : j <= i])

\* C30: the text of the artifact is the text of the final model turn when it
\* has text, otherwise the text of the latest earlier assistant turn that
\* has text, and the apology only when no assistant turn had text; it is
\* never the content of a user or tool-result turn.
C30_ArtifactIsLatestAnswer ==
    [][\A e \in Execs :
          (pc[e] = "add_artifact" /\ pc'[e] = "complete") =>
              LET artifact == events'[e][Len(events'[e])]
              IN  /\ artifact.type = "artifact"
                  /\ artifact.text = LatestAnswer(agent, messages[e])
                  /\ \A i \in DOMAIN messages[e] :
                        messages[e][i].role \in {"user", "tool"} =>
                            artifact.text # TurnText(messages[e][i])]_vars

\* the loop ended and the text to attach is the apology although an
\* assistant turn had text: a later turn whose content is a block list
\* without a text block reset final_response
C30_TextLostToApology ==
    \E e \in Execs :
        /\ pc[e] = "add_artifact"
        /\ final_response[e] = ApologyText(agent)
        /\ \E i \in DOMAIN messages[e] :
              /\ messages[e][i].role = "assistant"
              /\ messages[e][i].content = ContentList(<<ToolUseBlock>>)
              /\ \E j \in TextTurns(messages[e]) : j < i

====
